---- MODULE Spec2Model ----
(***************************************************************************)
(* Verification model of overnats: the sharded Producer (peer discovery,    *)
(* rebalancing through a compare-and-swap on the distribution cell, shard   *)
(* pickup, per-shard subscription workers), the Spawner registry with its   *)
(* in-process Mutex, and the distribute() assignment algorithm.             *)
(*                                                                          *)
(* Four specifications share the definitions below:                         *)
(*   SpecDistribute  distribute() run step by step on bounded inputs        *)
(*   SpecSpawner     one Spawner driven by arbitrary concurrent calls       *)
(*   Spec            Producer peers joining, beating and leaving            *)
(*   SpecShards      Producer peers joining and serving subscriptions       *)
(***************************************************************************)
EXTENDS Integers, Sequences, FiniteSets, TLC

\* ------------------------------------------------------------------------
\* Bounds
\* ------------------------------------------------------------------------
MaxInstances == 3
MaxShards == 3
MaxReplicas == 3
MaxCalls == 3
MaxPeers == 2
NumShards == 2
MaxHeartbeats == 1
MaxSubscribes == 2
MaxDeletes == 1
MaxSummons == 4
MaxWrites == 4
MaxLockers == 3
MaxExpiries == 1
MaxMutators == 4
MaxTicks == 2
MaxMisses == 2
MaxMissCount == 3
MaxItems == 3
MaxRetries == 4
MaxDeliveries == 7
TimerInterval == 5
MaxDuration == 7
MaxTime == 30

\* ------------------------------------------------------------------------
\* Generic helpers
\* ------------------------------------------------------------------------
Min(a, b) == IF a <= b THEN a ELSE b

Range(s) == {s[i] : i \in 1..Len(s)}

Front(s) == SubSeq(s, 1, Len(s) - 1)

Last(s) == s[Len(s)]

\* Array.prototype.includes
Includes(s, x) == \E i \in 1..Len(s) : s[i] = x

IsDistinct(s) == \A i, j \in 1..Len(s) : s[i] = s[j] => i = j

\* all sequences without repetition over S of length lo..hi
DistinctSeqs(S, lo, hi) ==
  {s \in UNION {[1..n -> S] : n \in lo..hi} : IsDistinct(s)}

\* ------------------------------------------------------------------------
\* utils.ts: sequence()
\* ------------------------------------------------------------------------
SEQUENCE_ALPHABET ==
  <<"a", "b", "c", "d", "e", "f", "g", "h", "i", "j", "k", "l", "m",
    "n", "o", "p", "q", "r", "s", "t", "u", "v", "w", "x", "y", "z">>

\* sequence(length) for length <= 26: one digit, no padding needed
Sequence(length) == [i \in 1..length |-> SEQUENCE_ALPHABET[i]]

\* ------------------------------------------------------------------------
\* utils.ts: distribute()
\* ------------------------------------------------------------------------
VARIABLES
  dInstances,   \* argument instances: ordered list of peer ids
  dShards,      \* argument shards: ordered list of shard names
  dReplicas,    \* argument replicas
  dResult,      \* result: peer id -> list of shards (the arrays of `list`)
  dShardIdx,    \* position of the outer for-of loop over shards
  dCandidates,  \* candidates of the current shard (peer ids naming arrays)
  dCount,       \* count of the current shard
  dI,           \* inner loop counter i
  dPc           \* "shard" | "loop" | "done"

distVars == <<dInstances, dShards, dReplicas, dResult, dShardIdx,
              dCandidates, dCount, dI, dPc>>

\* for (const key of instances) { result[key] = []; list.push(instance) }
EmptyResult(instances) == [k \in Range(instances) |-> <<>>]

\* list.filter(instance => !instance.includes(shard))
Candidates(instances, result, shard) ==
  SelectSeq(instances, LAMBDA k : ~Includes(result[k], shard))

\* one insertion of the stable sort: c goes after every array that is
\* not longer than its own
RECURSIVE InsertByLength(_, _, _)
InsertByLength(sorted, c, result) ==
  IF sorted = <<>> THEN <<c>>
  ELSE IF Len(result[Head(sorted)]) <= Len(result[c])
       THEN <<Head(sorted)>> \o InsertByLength(Tail(sorted), c, result)
       ELSE <<c>> \o sorted

RECURSIVE SortByLengthRec(_, _)
SortByLengthRec(candidates, result) ==
  IF candidates = <<>> THEN <<>>
  ELSE InsertByLength(SortByLengthRec(Front(candidates), result),
                      Last(candidates), result)

\* faulty variant: the sort is left out, candidates keep their order
SortByLengthUnsorted(candidates, result) == candidates

\* candidates.sort((a, b) => a.length - b.length)  (stable)
SortByLength(candidates, result) == SortByLengthRec(candidates, result)

\* faulty variant: the chosen candidate is not removed from candidates
PushShardNoShift(candidates, result, shard) ==
  LET sorted == SortByLength(candidates, result) IN
  [candidates |-> sorted,
   result |-> [result EXCEPT ![Head(sorted)] = Append(@, shard)]]

\* candidates.sort(...); candidates.shift()!.push(shard)
PushShard(candidates, result, shard) ==
  LET sorted == SortByLength(candidates, result) IN
  [candidates |-> Tail(sorted),
   result |-> [result EXCEPT ![Head(sorted)] = Append(@, shard)]]

RECURSIVE PushLoop(_, _, _, _)
PushLoop(candidates, result, shard, n) ==
  IF n <= 0 THEN result
  ELSE LET step == PushShard(candidates, result, shard) IN
       PushLoop(step.candidates, step.result, shard, n - 1)

\* body of the outer loop for one shard
DistributeShard(instances, result, shard, replicas) ==
  LET candidates == Candidates(instances, result, shard)
      count == Min(replicas, Len(candidates))
  IN PushLoop(candidates, result, shard, count)

RECURSIVE DistributeFrom(_, _, _, _, _)
DistributeFrom(instances, shards, replicas, result, idx) ==
  IF idx > Len(shards) THEN result
  ELSE DistributeFrom(instances, shards, replicas,
         DistributeShard(instances, result, shards[idx], replicas), idx + 1)

\* distribute(instances, shards, replicas)
Distribute(instances, shards, replicas) ==
  DistributeFrom(instances, shards, replicas, EmptyResult(instances), 1)

DistInputs ==
  /\ dInstances \in DistinctSeqs(1..MaxInstances, 1, MaxInstances)
  /\ dShards \in DistinctSeqs(Range(Sequence(MaxShards)), 0, MaxShards)
  /\ dReplicas \in 1..MaxReplicas

DistInit ==
  /\ DistInputs
  /\ dResult = EmptyResult(dInstances)
  /\ dShardIdx = 1
  /\ dCandidates = <<>>
  /\ dCount = 0
  /\ dI = 0
  /\ dPc = "shard"

DistIdle ==
  /\ dInstances = <<>>
  /\ dShards = <<>>
  /\ dReplicas = 0
  /\ dResult = <<>>
  /\ dShardIdx = 0
  /\ dCandidates = <<>>
  /\ dCount = 0
  /\ dI = 0
  /\ dPc = "idle"

\* for (const shard of shards) { candidates = ...; count = ...; i = 0
DistributeNextShard ==
  /\ dPc = "shard"
  /\ dShardIdx <= Len(dShards)
  /\ dCandidates' = Candidates(dInstances, dResult, dShards[dShardIdx])
  /\ dCount' = Min(dReplicas, Len(dCandidates'))
  /\ dI' = 0
  /\ dPc' = "loop"
  /\ UNCHANGED <<dInstances, dShards, dReplicas, dResult, dShardIdx>>

\* one iteration of for (let i = 0; i < count; i++)
DistributeAssign ==
  /\ dPc = "loop"
  /\ dI < dCount
  /\ LET step == PushShard(dCandidates, dResult, dShards[dShardIdx]) IN
       /\ dCandidates' = step.candidates
       /\ dResult' = step.result
  /\ dI' = dI + 1
  /\ UNCHANGED <<dInstances, dShards, dReplicas, dShardIdx, dCount, dPc>>

\* i == count: next shard
DistributeEndShard ==
  /\ dPc = "loop"
  /\ dI >= dCount
  /\ dShardIdx' = dShardIdx + 1
  /\ dPc' = "shard"
  /\ UNCHANGED <<dInstances, dShards, dReplicas, dResult, dCandidates,
                 dCount, dI>>

\* return result
DistributeReturn ==
  /\ dPc = "shard"
  /\ dShardIdx > Len(dShards)
  /\ dPc' = "done"
  /\ UNCHANGED <<dInstances, dShards, dReplicas, dResult, dShardIdx,
                 dCandidates, dCount, dI>>

\* ------------------------------------------------------------------------
\* JSON values and utils.ts: hashOf()
\* ------------------------------------------------------------------------
\* A value is undefined or an object; an object is its list of
\* <<property, value>> pairs in insertion order.
Undefined == [kind |-> "undefined", props |-> <<>>]

Object(props) == [kind |-> "object", props |-> props]

PropertyNames == <<"t", "u">>

\* position of a property name in the code-unit order of strings
NameRank(name) == CHOOSE i \in 1..Len(PropertyNames) : PropertyNames[i] = name

RECURSIVE InsertByName(_, _)
InsertByName(sorted, pair) ==
  IF sorted = <<>> THEN <<pair>>
  ELSE IF NameRank(Head(sorted)[1]) <= NameRank(pair[1])
       THEN <<Head(sorted)>> \o InsertByName(Tail(sorted), pair)
       ELSE <<pair>> \o sorted

RECURSIVE StringifySorted(_)
StringifySorted(props) ==
  IF props = <<>> THEN <<>>
  ELSE InsertByName(StringifySorted(Front(props)), Last(props))

\* faulty variant: JSON.stringify, properties in insertion order
StringifyUnsorted(props) == props

\* fast-json-stable-stringify: the properties sorted by name; the sorted
\* list stands for the JSON text
Stringify(props) == StringifySorted(props)

\* crypto md5: the digest is represented by a number standing for its last
\* hex digits (16 bits of them, within TLC's integers); a mixing function
\* that is injective on the bounded texts
RECURSIVE Md5From(_, _)
Md5From(json, h) ==
  IF json = <<>> THEN h
  ELSE Md5From(Tail(json),
         (h * 33 + NameRank(Head(json)[1]) * 16 + Head(json)[2]) % 65536)

Md5(json) == Md5From(json, 5381)

\* hashOf(value): 32 zeros for undefined, else md5 of the stable JSON
HashOf(value) ==
  IF value.kind = "undefined" THEN 0 ELSE Md5(Stringify(value.props))

\* deep value equality of two values (property order is irrelevant)
DeepEqual(a, b) ==
  /\ a.kind = b.kind
  /\ Range(a.props) = Range(b.props)

\* ------------------------------------------------------------------------
\* utils.ts: Mutex and spawner.ts: Spawner
\* ------------------------------------------------------------------------
VARIABLES
  spCalls,     \* every public call made so far, with its progress
  spQueue,     \* Mutex._queue: ids of the calls waiting for the lock
  spBusy,      \* Mutex._busy
  spItems,     \* Spawner._items in insertion order: [key, hash, item]
  spChildren,  \* every child the factory returned: "alive" | "destroyed"
  spRef,       \* abstract reference: the key set predicted by the calls
  spFailed     \* TRUE once a factory or a child's destroy() has thrown

spVars == <<spCalls, spQueue, spBusy, spItems, spChildren, spRef, spFailed>>

SpawnerKeys == {"a", "b"}

SpawnerValues ==
  {Object(<<<<"t", 1>>, <<"u", 1>>>>),
   Object(<<<<"u", 1>>, <<"t", 1>>>>),
   Object(<<<<"t", 2>>>>)}

\* faulty variant: no key is ever found
ItemsHasNever(items, key) == FALSE

\* Map.has / Map.get / Map.delete / Map.set on the ordered item list
ItemsHas(items, key) == \E i \in 1..Len(items) : items[i].key = key

ItemsGet(items, key) ==
  items[CHOOSE i \in 1..Len(items) : items[i].key = key]

ItemsKeys(items) == {items[i].key : i \in 1..Len(items)}

\* faulty variant: the entry stays in the map
ItemsDeleteKeep(items, key) == items

ItemsDelete(items, key) == SelectSeq(items, LAMBDA e : e.key # key)

ItemsSet(items, key, hash, item) ==
  IF ItemsHas(items, key)
  THEN [i \in 1..Len(items) |->
          IF items[i].key = key
          THEN [key |-> key, hash |-> hash, item |-> item] ELSE items[i]]
  ELSE Append(items, [key |-> key, hash |-> hash, item |-> item])

Task(t, key, value) == [t |-> t, key |-> key, value |-> value]

\* faulty variant: an entry is replaced whatever its hash
RespawnDecisionReplace(items, key, value) ==
  IF ItemsHas(items, key) THEN "replace" ELSE "create"

\* _maybeRespawnItem: what it does before its first await
\*   "keep"    entry with the same hash: return
\*   "replace" entry with another hash: _destroyItem, then _spawnItem
\*   "create"  no entry: _spawnItem
RespawnDecision(items, key, value) ==
  IF ItemsHas(items, key)
  THEN IF HashOf(value) = ItemsGet(items, key).hash THEN "keep" ELSE "replace"
  ELSE "create"

\* Runs the synchronous part of the running callback up to its next await:
\* the result is the remaining tasks with an awaited factory call or an
\* awaited child destroy() at the head ("await"), or the settled outcome.
RECURSIVE Advance(_, _)
Advance(tasks, items) ==
  IF tasks = <<>> THEN [tasks |-> <<>>, outcome |-> "ok"]
  ELSE
    LET h == Head(tasks) IN
    CASE h.t = "spawnItem" ->
           \* spawnItem: throw if the key exists, else _spawnItem
           IF ItemsHas(items, h.key)
           THEN [tasks |-> <<>>, outcome |-> "err"]
           ELSE Advance(<<Task("factory", h.key, h.value)>> \o Tail(tasks),
                        items)
      [] h.t = "maybeRespawn" ->
           LET d == RespawnDecision(items, h.key, h.value) IN
           IF d = "keep" THEN Advance(Tail(tasks), items)
           ELSE IF d = "replace"
           THEN [tasks |-> <<Task("destroy", h.key, Undefined),
                             Task("factory", h.key, h.value)>> \o Tail(tasks),
                 outcome |-> "await"]
           ELSE [tasks |-> <<Task("factory", h.key, h.value)>> \o Tail(tasks),
                 outcome |-> "await"]
      [] h.t = "destroy" ->
           \* _destroyItem: return if there is no entry
           IF ItemsHas(items, h.key)
           THEN [tasks |-> tasks, outcome |-> "await"]
           ELSE Advance(Tail(tasks), items)
      [] OTHER -> [tasks |-> tasks, outcome |-> "await"]

\* faulty variant: the keys the argument leaves out are not destroyed
ResetTasksGivenOnly(items, entries) ==
  [i \in 1..Len(entries) |->
     Task("maybeRespawn", entries[i].key, entries[i].value)]

\* entries of the argument of resetItems, then the keys left over
ResetTasks(items, entries) ==
  LET given == {entries[i].key : i \in 1..Len(entries)}
      left == SelectSeq(items, LAMBDA e : e.key \notin given)
  IN [i \in 1..Len(entries) |->
        Task("maybeRespawn", entries[i].key, entries[i].value)]
     \o [i \in 1..Len(left) |-> Task("destroy", left[i].key, Undefined)]

\* the callback each public method hands to Mutex.lock
CallTasks(call, items) ==
  CASE call.op = "spawnItem" -> <<Task("spawnItem", call.key, call.value)>>
    [] call.op = "destroyItem" -> <<Task("destroy", call.key, Undefined)>>
    [] call.op = "maybeRespawnItem" ->
         <<Task("maybeRespawn", call.key, call.value)>>
    [] call.op = "resetItems" -> ResetTasks(items, call.entries)
    [] call.op = "forEach" ->
         \* forEach(callback): the callback is awaited for every item
         [i \in 1..Len(items) |-> Task("each", items[i].key, Undefined)]
    [] OTHER ->
         \* destroy(): every key of the map
         [i \in 1..Len(items) |-> Task("destroy", items[i].key, Undefined)]

Call(op, key, value, entries) ==
  [op |-> op, key |-> key, value |-> value, entries |-> entries,
   status |-> "queued", tasks |-> <<>>]

ResetArguments ==
  {[i \in 1..Len(ks) |-> [key |-> ks[i], value |-> v]] :
     ks \in DistinctSeqs(SpawnerKeys, 0, Cardinality(SpawnerKeys)),
     v \in SpawnerValues}

CallArguments ==
  {Call(op, k, v, <<>>) :
     op \in {"spawnItem", "maybeRespawnItem"},
     k \in SpawnerKeys, v \in SpawnerValues}
  \cup {Call("destroyItem", k, Undefined, <<>>) : k \in SpawnerKeys}
  \cup {Call("resetItems", "", Undefined, m) : m \in ResetArguments}
  \cup {Call("destroy", "", Undefined, <<>>)}
  \cup {Call("forEach", "", Undefined, <<>>)}

\* faulty variant: the callback queued last is started
MutexNextLast(calls, queue, items) ==
  IF queue = <<>>
  THEN [calls |-> calls, queue |-> queue, busy |-> FALSE]
  ELSE
    LET id == Last(queue)
        adv == Advance(CallTasks(calls[id], items), items)
    IN [calls |-> [calls EXCEPT ![id].status =
                     IF adv.outcome = "await" THEN "running" ELSE adv.outcome,
                                ![id].tasks = adv.tasks],
        queue |-> Front(queue),
        busy |-> TRUE]

\* Mutex._next: the mutex falls free on an empty queue, else the first
\* queued callback is started and runs up to its first await
MutexNext(calls, queue, items) ==
  IF queue = <<>>
  THEN [calls |-> calls, queue |-> queue, busy |-> FALSE]
  ELSE
    LET id == Head(queue)
        adv == Advance(CallTasks(calls[id], items), items)
    IN [calls |-> [calls EXCEPT ![id].status =
                     IF adv.outcome = "await" THEN "running" ELSE adv.outcome,
                                ![id].tasks = adv.tasks],
        queue |-> Tail(queue),
        busy |-> TRUE]

SpInit ==
  /\ spCalls = <<>>
  /\ spQueue = <<>>
  /\ spBusy = FALSE
  /\ spItems = <<>>
  /\ spChildren = <<>>
  /\ spRef = {}
  /\ spFailed = FALSE

SpIdle == SpInit

\* destroy() has resolved
SpawnerDestroyed ==
  \E i \in 1..Len(spCalls) :
    spCalls[i].op = "destroy" /\ spCalls[i].status = "resolved"

\* a public method is called: Mutex.lock pushes the callback and, when the
\* mutex is free, starts it; the owner calls nothing once its destroy() has
\* resolved
SpawnerCall ==
  /\ Len(spCalls) < MaxCalls
  /\ ~SpawnerDestroyed
  /\ \E call \in CallArguments :
       LET calls == Append(spCalls, call)
           queue == Append(spQueue, Len(calls))
           next == MutexNext(calls, queue, spItems)
       IN IF spBusy
          THEN /\ spCalls' = calls
               /\ spQueue' = queue
               /\ spBusy' = spBusy
          ELSE /\ spCalls' = next.calls
               /\ spQueue' = next.queue
               /\ spBusy' = next.busy
  /\ UNCHANGED <<spItems, spChildren, spRef, spFailed>>

\* the running callback settles its current step with the given outcome
Settle(calls, id, adv) ==
  [calls EXCEPT ![id].status =
                  IF adv.outcome = "await" THEN "running" ELSE adv.outcome,
                ![id].tasks = adv.tasks]

Thrown == [tasks |-> <<>>, outcome |-> "err"]

\* _spawnItem: the awaited factory call returns a child, which is stored
\* under the key, or throws
SpawnerFactoryReturn ==
  \E id \in 1..Len(spCalls), ok \in BOOLEAN :
    /\ spCalls[id].status = "running"
    /\ Head(spCalls[id].tasks).t = "factory"
    /\ LET h == Head(spCalls[id].tasks)
           item == Len(spChildren) + 1
           items == ItemsSet(spItems, h.key, HashOf(h.value), item)
       IN IF ok
          THEN /\ spChildren' = Append(spChildren, "alive")
               /\ spItems' = items
               /\ spCalls' = Settle(spCalls, id,
                               Advance(Tail(spCalls[id].tasks), items))
               /\ spFailed' = spFailed
          ELSE /\ spCalls' = Settle(spCalls, id, Thrown)
               /\ spFailed' = TRUE
               /\ UNCHANGED <<spItems, spChildren>>
    /\ UNCHANGED <<spQueue, spBusy, spRef>>

\* _destroyItem: the awaited entry.item.destroy() returns and the entry is
\* deleted, or it throws and the entry stays
SpawnerChildDestroyed ==
  \E id \in 1..Len(spCalls), ok \in BOOLEAN :
    /\ spCalls[id].status = "running"
    /\ Head(spCalls[id].tasks).t = "destroy"
    /\ ItemsHas(spItems, Head(spCalls[id].tasks).key)
    /\ LET h == Head(spCalls[id].tasks)
           entry == ItemsGet(spItems, h.key)
           items == ItemsDelete(spItems, h.key)
       IN IF ok
          THEN /\ spChildren' = [spChildren EXCEPT ![entry.item] = "destroyed"]
               /\ spItems' = items
               /\ spCalls' = Settle(spCalls, id,
                               Advance(Tail(spCalls[id].tasks), items))
               /\ spFailed' = spFailed
          ELSE /\ spCalls' = Settle(spCalls, id, Thrown)
               /\ spFailed' = TRUE
               /\ UNCHANGED <<spItems, spChildren>>
    /\ UNCHANGED <<spQueue, spBusy, spRef>>

\* forEach: the awaited callback(entry.item) returns or throws; the registry
\* is left as it is
SpawnerEachReturn ==
  \E id \in 1..Len(spCalls), ok \in BOOLEAN :
    /\ spCalls[id].status = "running"
    /\ Head(spCalls[id].tasks).t = "each"
    /\ spCalls' = Settle(spCalls, id,
                    IF ok THEN Advance(Tail(spCalls[id].tasks), spItems)
                    ELSE Thrown)
    /\ UNCHANGED <<spQueue, spBusy, spItems, spChildren, spRef, spFailed>>

\* the abstract reference: a successful spawn or respawn adds the key,
\* destroyItem removes it, resetItems replaces the key set, destroy
\* empties it; a call that failed changes nothing
RefAfter(ref, call) ==
  IF call.status # "ok" THEN ref
  ELSE CASE call.op \in {"spawnItem", "maybeRespawnItem"} ->
              ref \cup {call.key}
         [] call.op = "destroyItem" -> ref \ {call.key}
         [] call.op = "resetItems" ->
              {call.entries[i].key : i \in 1..Len(call.entries)}
         [] call.op = "forEach" -> ref
         [] OTHER -> {}

\* the promise of the callback settles: the caller's lock() resolves or
\* rejects, and callback().then(this._next) hands the mutex on
SpawnerNext ==
  \E id \in 1..Len(spCalls) :
    /\ spCalls[id].status \in {"ok", "err"}
    /\ LET settled == [spCalls EXCEPT ![id] =
                         [Call(@.op, "", Undefined, <<>>) EXCEPT !.status =
                            IF spCalls[id].status = "ok"
                            THEN "resolved" ELSE "rejected"]]
           next == MutexNext(settled, spQueue, spItems)
       IN /\ spCalls' = next.calls
          /\ spQueue' = next.queue
          /\ spBusy' = next.busy
    /\ spRef' = RefAfter(spRef, spCalls[id])
    /\ UNCHANGED <<spItems, spChildren, spFailed>>

\* ------------------------------------------------------------------------
\* Producer: peers of one producer over the bucket producer.<name>
\* ------------------------------------------------------------------------
VARIABLES
  cfgReplicas, \* option replicas of the deployment
  kvSeq,       \* last sequence of the bucket's stream: the newest revision
  cell,        \* entry of key distribution
  instances,   \* entries of the keys instances.<peerId>
  subs,        \* entries of the keys subscriptions.<shard>.<paramHash>
  pc,          \* where each peer is between construction and destroy
  crowd,       \* Producer._crowd: the keys of the Map in insertion order
  instW,       \* Producer._instancesWatch
  distW,       \* Producer._distributionWatch
  rb,          \* the _rebalance call in flight in the instances watcher
  prItems,     \* _items of Producer._spawner (shard handlers)
  handlers,    \* the shard handlers: slice watcher and inner Spawner
  distWrites,  \* history: the number of writes of the cell that were taken
  ev,          \* history: the membership event that left a steady state
  picked,      \* history: shard list of the last distribution picked up
  subLog,      \* history: the subscribe requests answered
  used         \* how many heartbeats, subscribes, and writes of other
               \* clients (deletes) have been made

prVars == <<cfgReplicas, kvSeq, cell, instances, subs, pc, crowd, instW,
            distW, rb, prItems,  handlers, distWrites, ev, picked,
            subLog, used>>

\* nanoid(): peer ids are told apart by a number
Peers == 1..MaxPeers

\* Producer._shards = sequence(shards)
Shards == Sequence(NumShards)

\* retry(): retries = 10
Retries == 10

\* replicas: the default, and one, under which a peer gives shards away
DefaultReplicas == 2

ProducerReplicas == {1, DefaultReplicas}

\* params of the subscribe requests: deep-equal, the properties in two orders
SubscribeParams ==
  {Object(<<<<"t", 1>>, <<"u", 1>>>>),
   Object(<<<<"u", 1>>, <<"t", 1>>>>)}

ParamHashes == {HashOf(v) : v \in SubscribeParams}

NoEntry == [operation |-> "NONE", revision |-> 0, value |-> Undefined]

NoCell == [operation |-> "NONE", revision |-> 0,
           value |-> [shards |-> <<>>, replicas |-> 0, distribution |-> <<>>,
                      revision |-> 0, author |-> 0]]

Update(operation, revision, key, value) ==
  [operation |-> operation, revision |-> revision, key |-> key,
   value |-> value]

NoWatcher == [active |-> FALSE, q |-> <<>>, snap |-> 0]

NoHandler == [state |-> "none", w |-> NoWatcher, workers |-> <<>>]

\* the keys of a function whose entry was written, oldest revision first
RECURSIVE ByRevision(_, _)
ByRevision(entries, keys) ==
  IF keys = {} THEN <<>>
  ELSE LET k == CHOOSE x \in keys :
                  \A y \in keys : entries[x].revision <= entries[y].revision
       IN <<Update(entries[k].operation, entries[k].revision, k,
                   entries[k].value)>>
          \o ByRevision(entries, keys \ {k})

\* faulty variant: the watch starts without the entries already in the bucket
SnapshotNone(entries, keys) == <<>>

\* kv.watch: the last entry of every key the filter matches, in stream
\* order, is delivered first
Snapshot(entries, keys) ==
  ByRevision(entries, {k \in keys : entries[k].operation # "NONE"})

\* faulty variant: initializedFn runs before the snapshot is consumed
StartWatcherOnline(snapshot) == [active |-> TRUE, q |-> snapshot, snap |-> 0]

\* Watcher.init: kv.watch followed by the listener; initializedFn runs in
\* the iterator after the last snapshot entry
StartWatcher(snapshot) ==
  [active |-> TRUE, q |-> snapshot, snap |-> Len(snapshot)]

\* the stream delivers an entry to a watcher that has not been stopped
Feed(w, update) == IF w.active THEN [w EXCEPT !.q = Append(@, update)] ELSE w

\* the listener takes the first entry off the iterator
Taken(w) ==
  [w EXCEPT !.q = Tail(@), !.snap = IF @ > 0 THEN @ - 1 ELSE 0]

\* faulty variant: the closure variable online starts true
OnlineAlways(w) == TRUE

\* the value of the closure variable online when the callback reads it
Online(w) == w.snap = 0

\* Watcher.destroy: the iterator is stopped and yields what it had taken
\* into its current batch, a prefix of what is queued
Stopped(w, n) == [w EXCEPT !.active = FALSE, !.q = SubSeq(@, 1, n)]

IdleRebalance == [pc |-> "idle", revision |-> 0, expect |-> 0, retry |-> 0]

\* the peers are constructed with the same shards and replicas, and nothing
\* is in the bucket
PrInit ==
  /\ cfgReplicas \in ProducerReplicas
  /\ kvSeq = 0
  /\ cell = NoCell
  /\ instances = [p \in Peers |-> NoEntry]
  /\ subs = [k \in Range(Shards) \X ParamHashes |-> NoEntry]
  /\ pc = [p \in Peers |-> "new"]
  /\ crowd = [p \in Peers |-> <<>>]
  /\ instW = [p \in Peers |-> NoWatcher]
  /\ distW = [p \in Peers |-> NoWatcher]
  /\ rb = [p \in Peers |-> IdleRebalance]
  /\ prItems = [p \in Peers |-> <<>>]
  /\ handlers = [p \in Peers |-> [s \in Range(Shards) |-> NoHandler]]
  /\ distWrites = 0
  /\ ev = [revision |-> 0, base |-> 0, ran |-> {}]
  /\ picked = [p \in Peers |-> [valid |-> FALSE, shards |-> <<>>, dropped |-> FALSE]]
  /\ subLog = {}
  /\ used = [heartbeats |-> 0, subscribes |-> 0, deletes |-> 0]

PrIdle ==
  /\ cfgReplicas = 0
  /\ kvSeq = 0
  /\ cell = NoCell
  /\ instances = <<>>
  /\ subs = <<>>
  /\ pc = <<>>
  /\ crowd = <<>>
  /\ instW = <<>>
  /\ distW = <<>>
  /\ rb = <<>>
  /\ prItems = <<>>
  /\ handlers = <<>>
  /\ distWrites = 0
  /\ ev = [revision |-> 0, base |-> 0, ran |-> {}]
  /\ picked = <<>>
  /\ subLog = {}
  /\ used = [heartbeats |-> 0, subscribes |-> 0, deletes |-> 0]

\* every watcher has handed over all it was sent and no callback is running
Settled(p) ==
  /\ instW[p].q = <<>>
  /\ distW[p].q = <<>>
  /\ rb[p].pc = "idle"
  /\ \A s \in Range(Shards) : handlers[p][s].w.q = <<>>

\* no peer is inside init or destroy, and every peer is settled
Steady ==
  \A p \in Peers : pc[p] \in {"new", "running", "destroyed"} /\ Settled(p)

\* the same, but for the peer that is joining or leaving
SteadyBut(p) ==
  \A q \in Peers :
    /\ Settled(q)
    /\ q # p => pc[q] \in {"new", "running", "destroyed"}

\* history of the membership events: an event written by p in a steady
\* state is remembered until another one is written, with the number of
\* writes of the cell before it and the peers that ran _rebalance for it
EventAfter(p, revision) ==
  IF SteadyBut(p)
  THEN [revision |-> revision, base |-> distWrites, ran |-> {}]
  ELSE [revision |-> 0, base |-> 0, ran |-> {}]

\* a write of instances.<peer>: the entry and its delivery to the watchers
WriteInstance(p, operation) ==
  /\ kvSeq' = kvSeq + 1
  /\ instances' = [instances EXCEPT ![p] =
                     [operation |-> operation, revision |-> kvSeq + 1,
                      value |-> Undefined]]
  /\ instW' = [q \in Peers |->
                 Feed(instW[q], Update(operation, kvSeq + 1, p, Undefined))]

\* Producer.init up to the distribution watch (lines 247-291)
InitDistributionWatch(p) ==
  /\ pc[p] = "new"
  /\ pc' = [pc EXCEPT ![p] = "distribution"]
  /\ distW' = [distW EXCEPT ![p] =
       StartWatcher(IF cell.operation = "NONE" THEN <<>>
                    ELSE <<Update(cell.operation, cell.revision,
                                  "distribution", cell.value)>>)]
  /\ UNCHANGED <<cfgReplicas, kvSeq, cell, instances, subs, crowd, instW, rb,
                 prItems,  handlers, distWrites, ev, picked, subLog, used>>

\* the distribution watch is online: the instances watch is installed
InitInstancesWatch(p) ==
  /\ pc[p] = "distribution"
  /\ Online(distW[p])
  /\ pc' = [pc EXCEPT ![p] = "instances"]
  /\ instW' = [instW EXCEPT ![p] = StartWatcher(Snapshot(instances, Peers))]
  /\ UNCHANGED <<cfgReplicas, kvSeq, cell, instances, subs, crowd, distW, rb,
                 prItems,  handlers, distWrites, ev, picked, subLog, used>>

\* the instances watch is online: _online(new Date()), then the service
\* method and the heartbeat timer
InitOnline(p) ==
  /\ pc[p] = "instances"
  /\ Online(instW[p])
  /\ pc' = [pc EXCEPT ![p] = "running"]
  /\ WriteInstance(p, "PUT")
  /\ ev' = EventAfter(p, kvSeq + 1)
  /\ UNCHANGED <<cfgReplicas, cell, subs, crowd, distW, rb, prItems, 
                 handlers, distWrites, picked, subLog, used>>

\* the heartbeat timer fires: _online(new Date(now))
Heartbeat(p) ==
  /\ pc[p] = "running"
  /\ used.heartbeats < MaxHeartbeats
  /\ used' = [used EXCEPT !.heartbeats = @ + 1]
  /\ WriteInstance(p, "PUT")
  /\ UNCHANGED <<cfgReplicas, cell, subs, pc, crowd, distW, rb, prItems, 
                 handlers, distWrites, ev, picked, subLog>>

\* faulty variant: a peer that leaves does not disbalance
DisbalancedOnPut(keys, update) ==
  update.operation = "PUT" /\ ~Includes(keys, update.key)

\* faulty variant: every update disbalances
DisbalancedAlways(keys, update) == TRUE

\* disbalanced: a PUT of a key the crowd has not, a DEL of one it has
Disbalanced(keys, update) ==
  IF update.operation = "PUT"
  THEN ~Includes(keys, update.key)
  ELSE Includes(keys, update.key)

\* the instances watcher callback up to its await of _rebalance
InstancesUpdate(p) ==
  /\ instW[p].q # <<>>
  /\ rb[p].pc = "idle"
  /\ LET update == Head(instW[p].q)
         known == Includes(crowd[p], update.key)
         start == Online(instW[p]) /\ Disbalanced(crowd[p], update)
     IN /\ crowd' = [crowd EXCEPT ![p] =
             IF update.operation = "PUT"
             THEN IF known THEN @ ELSE Append(@, update.key)
             ELSE SelectSeq(@, LAMBDA k : k # update.key)]
        /\ rb' = [rb EXCEPT ![p] =
             IF start
             THEN [pc |-> "get", revision |-> update.revision, expect |-> 0,
                   retry |-> 0]
             ELSE @]
        /\ ev' = IF start /\ update.revision = ev.revision
                 THEN [ev EXCEPT !.ran = @ \cup {p}] ELSE ev
  /\ instW' = [instW EXCEPT ![p] = Taken(@)]
  /\ UNCHANGED <<cfgReplicas, kvSeq, cell, instances, subs, pc, distW,
                 prItems,  handlers, distWrites, picked, subLog, used>>

\* faulty variant: a stored record of the same revision is written over
RebalanceSkipsNewerOnly(value, revision) == value.revision > revision

\* if (value && value.revision >= revision) return
RebalanceSkips(value, revision) == value.revision >= revision

\* mutateUsing in _rebalance: kv.get and the callback up to use()
RebalanceGet(p) ==
  /\ rb[p].pc = "get"
  /\ rb' = [rb EXCEPT ![p] =
       IF cell.operation # "NONE" /\ RebalanceSkips(cell.value, @.revision)
       THEN IdleRebalance
       ELSE [@ EXCEPT !.pc = "use", !.expect = cell.revision]]
  /\ UNCHANGED <<cfgReplicas, kvSeq, cell, instances, subs, pc, crowd, instW,
                 distW, prItems,  handlers, distWrites, ev, picked, subLog,
                 used>>

\* faulty variant: the write is a put, nothing is compared
CasAlways(entry, expect) == TRUE

\* kv.update(key, value, entry.revision) and kv.create(key, value): the
\* write is taken iff the key's last revision is the expected one
\* (create: iff the key has no entry)
Cas(entry, expect) == entry.revision = expect

\* use(): the compare-and-swap write; a miss (10071) runs the cycle again
\* after the back-off unless the retries are used up
RebalanceUse(p) ==
  /\ rb[p].pc = "use"
  /\ IF Cas(cell, rb[p].expect)
     THEN LET record == [shards |-> Shards,
                         replicas |-> cfgReplicas,
                         distribution |->
                           Distribute(crowd[p], Shards, cfgReplicas),
                         revision |-> rb[p].revision,
                         author |-> p]
          IN /\ kvSeq' = kvSeq + 1
             /\ cell' = [operation |-> "PUT", revision |-> kvSeq + 1,
                         value |-> record]
             /\ distW' = [q \in Peers |->
                  Feed(distW[q],
                       Update("PUT", kvSeq + 1, "distribution", record))]
             /\ distWrites' = distWrites + 1
             /\ rb' = [rb EXCEPT ![p] = IdleRebalance]
     ELSE /\ rb' = [rb EXCEPT ![p] =
               IF @.retry < Retries
               THEN [@ EXCEPT !.pc = "get", !.retry = @ + 1]
               ELSE IdleRebalance]
          /\ UNCHANGED <<kvSeq, cell, distW, distWrites>>
  /\ UNCHANGED <<cfgReplicas, instances, subs, pc, crowd, instW, prItems, 
                 handlers, ev, picked, subLog, used>>

\* the worker the factory returns for a key: the workers a handler makes
\* for a key one after the other are told apart by a number
WorkerAfter(workers, key) ==
  IF ItemsHas(workers, key) THEN ItemsGet(workers, key).item + 1 ELSE 1

\* faulty variant: the worker is replaced whatever its params
WorkersRespawnAlways(workers, key, value) ==
  ItemsSet(ItemsDelete(workers, key), key, HashOf(value),
           WorkerAfter(workers, key))

\* inner spawner under its mutex: maybeRespawnItem(key, params), with the
\* user callback as factory
WorkersRespawn(workers, key, value) ==
  IF RespawnDecision(workers, key, value) = "keep" THEN workers
  ELSE ItemsSet(ItemsDelete(workers, key), key, HashOf(value),
                WorkerAfter(workers, key))

\* the slice watcher callback of a shard handler on one update
WorkersAfter(workers, update) ==
  IF update.operation = "PUT"
  THEN WorkersRespawn(workers, update.key, update.value.params)
  ELSE ItemsDelete(workers, update.key)

RECURSIVE WorkersAfterAll(_, _)
WorkersAfterAll(workers, updates) ==
  IF updates = <<>> THEN workers
  ELSE WorkersAfterAll(WorkersAfter(workers, Head(updates)), Tail(updates))

\* an update of the slice subscriptions.<shard>: the key without the prefix
SliceUpdate(update) == [update EXCEPT !.key = @[2]]

\* the shard handler factory: the slice subscriptions.<key>, the inner
\* spawner and the slice watch, which returns when it is online, that is
\* when its callback has handled the snapshot
HandlerFor(shard) ==
  LET snapshot == Snapshot(subs, {shard} \X ParamHashes)
      updates == [i \in 1..Len(snapshot) |-> SliceUpdate(snapshot[i])]
  IN [state |-> "live",
      w |-> [active |-> TRUE, q |-> <<>>, snap |-> 0],
      workers |-> WorkersAfterAll(<<>>, updates)]

\* the callback of resetItems under the mutex of Producer._spawner, run to
\* its end: _spawnItem stores the handler the factory returns, _destroyItem
\* destroys a handler (its slice watch and its inner spawner with every
\* worker) and deletes the entry
RECURSIVE RunReset(_, _, _)
RunReset(tasks, items, hs) ==
  LET adv == Advance(tasks, items) IN
  IF adv.tasks = <<>> THEN [items |-> items, handlers |-> hs]
  ELSE LET h == Head(adv.tasks) IN
       IF h.t = "factory"
       THEN RunReset(Tail(adv.tasks),
                     ItemsSet(items, h.key, HashOf(h.value), h.key),
                     [hs EXCEPT ![h.key] = HandlerFor(h.key)])
       ELSE RunReset(Tail(adv.tasks),
                     ItemsDelete(items, h.key),
                     [hs EXCEPT ![h.key] = NoHandler])

\* _pickup(shards): items.set(shard, undefined) for every shard
PickupEntries(shards) ==
  [i \in 1..Len(shards) |-> [key |-> shards[i], value |-> Undefined]]

\* the distribution watcher callback: an online PUT that lists the peer is
\* picked up with resetItems
DistributionUpdate(p) ==
  /\ distW[p].q # <<>>
  /\ LET update == Head(distW[p].q)
         listed == /\ update.operation = "PUT"
                   /\ Online(distW[p])
                   /\ p \in DOMAIN update.value.distribution
         shards == update.value.distribution[p]
         reset == RunReset(ResetTasks(prItems[p], PickupEntries(shards)),
                           prItems[p], handlers[p])
     IN IF listed
        THEN /\ prItems' = [prItems EXCEPT ![p] = reset.items]
             /\ handlers' = [handlers EXCEPT ![p] = reset.handlers]
             /\ picked' = [picked EXCEPT ![p] =
                  [valid |-> TRUE, shards |-> shards,
                   dropped |-> Len(prItems[p]) > Len(reset.items)]]
        ELSE UNCHANGED <<prItems, handlers, picked>>
  /\ distW' = [distW EXCEPT ![p] = Taken(@)]
  /\ UNCHANGED <<cfgReplicas, kvSeq, cell, instances, subs, pc, crowd, instW,
                 rb, distWrites, ev, subLog, used>>

\* the slice watcher callback of a shard handler
SubscriptionUpdate(p, shard) ==
  /\ handlers[p][shard].state # "none"
  /\ handlers[p][shard].w.q # <<>>
  /\ handlers' = [handlers EXCEPT
       ![p][shard].w = Taken(@),
       ![p][shard].workers =
          WorkersAfter(@, Head(handlers[p][shard].w.q))]
  /\ UNCHANGED <<cfgReplicas, kvSeq, cell, instances, subs, pc, crowd, instW,
                 distW, rb, prItems, distWrites, ev, picked, subLog, used>>

\* a write of subscriptions.<shard>.<hash> and its delivery to the slice
\* watchers of the shard
WriteSubscription(shard, hash, operation, value) ==
  /\ kvSeq' = kvSeq + 1
  /\ subs' = [subs EXCEPT ![<<shard, hash>>] =
                [operation |-> operation, revision |-> kvSeq + 1,
                 value |-> value]]
  /\ handlers' = [q \in Peers |-> [s \in Range(Shards) |->
       IF s = shard
       THEN [handlers[q][s] EXCEPT !.w =
               Feed(@, Update(operation, kvSeq + 1, hash, value))]
       ELSE handlers[q][s]]]

\* the record { seen, stream, params }; the time of the write stands for
\* seen and the hash for the stream name
SubscriptionRecord(seen, stream, params) ==
  [seen |-> seen, stream |-> stream, params |-> params]

\* this._shards[parseInt(hash.slice(-8), 16) % this._shards.length]
ShardOf(hash) == Shards[(hash % Len(Shards)) + 1]

\* the service method subscribe, handled by peer p
Subscribe(p) ==
  /\ pc[p] = "running"
  /\ used.subscribes < MaxSubscribes
  /\ \E params \in SubscribeParams :
       LET hash == HashOf(params)
           shard == ShardOf(hash)
       IN /\ WriteSubscription(shard, hash, "PUT",
                               SubscriptionRecord(kvSeq + 1, hash, params))
          /\ subLog' = subLog \cup
               {[params |-> params, stream |-> hash, shard |-> shard,
                 key |-> hash]}
  /\ used' = [used EXCEPT !.subscribes = @ + 1]
  /\ UNCHANGED <<cfgReplicas, cell, instances, pc, crowd, instW, distW, rb,
                 prItems,  distWrites, ev, picked>>

\* params no subscribe request of the model has
OtherParams == Object(<<<<"t", 2>>>>)

\* another client of the bucket overwrites a subscription record with a
\* record of other params
PutSubscription ==
  /\ used.deletes < MaxDeletes
  /\ \E k \in DOMAIN subs :
       /\ subs[k].operation = "PUT"
       /\ WriteSubscription(k[1], k[2], "PUT",
                            SubscriptionRecord(kvSeq + 1, k[2], OtherParams))
  /\ used' = [used EXCEPT !.deletes = @ + 1]
  /\ UNCHANGED <<cfgReplicas, cell, instances, pc, crowd, instW, distW, rb,
                 prItems,  distWrites, ev, picked, subLog>>

\* another client of the bucket deletes a subscription record
DeleteSubscription ==
  /\ used.deletes < MaxDeletes
  /\ \E k \in DOMAIN subs :
       /\ subs[k].operation = "PUT"
       /\ WriteSubscription(k[1], k[2], "DEL", Undefined)
  /\ used' = [used EXCEPT !.deletes = @ + 1]
  /\ UNCHANGED <<cfgReplicas, cell, instances, pc, crowd, instW, distW, rb,
                 prItems,  distWrites, ev, picked, subLog>>

\* Producer.destroy: the heartbeat and the service are destroyed, the
\* instances watch is stopped
DestroyInstancesWatch(p) ==
  /\ pc[p] = "running"
  /\ pc' = [pc EXCEPT ![p] = "stop-instances"]
  /\ \E n \in 0..Len(instW[p].q) :
       instW' = [instW EXCEPT ![p] = Stopped(@, n)]
  /\ UNCHANGED <<cfgReplicas, kvSeq, cell, instances, subs, crowd, distW, rb,
                 prItems,  handlers, distWrites, ev, picked, subLog, used>>

\* the listener of the instances watch has ended: the distribution watch
\* is stopped
DestroyDistributionWatch(p) ==
  /\ pc[p] = "stop-instances"
  /\ instW[p].q = <<>>
  /\ rb[p].pc = "idle"
  /\ pc' = [pc EXCEPT ![p] = "stop-distribution"]
  /\ \E n \in 0..Len(distW[p].q) :
       distW' = [distW EXCEPT ![p] = Stopped(@, n)]
  /\ UNCHANGED <<cfgReplicas, kvSeq, cell, instances, subs, crowd, instW, rb,
                 prItems,  handlers, distWrites, ev, picked, subLog, used>>

\* the listener of the distribution watch has ended: the own instance
\* record is deleted and the spawner destroyed with every shard handler
DestroyInstance(p) ==
  /\ pc[p] = "stop-distribution"
  /\ distW[p].q = <<>>
  /\ pc' = [pc EXCEPT ![p] = "destroyed"]
  /\ WriteInstance(p, "DEL")
  /\ ev' = EventAfter(p, kvSeq + 1)
  /\ prItems' = [prItems EXCEPT ![p] = <<>>]
  /\ handlers' = [handlers EXCEPT ![p] = [s \in Range(Shards) |-> NoHandler]]
  /\ picked' = [picked EXCEPT ![p] = [valid |-> FALSE, shards |-> <<>>, dropped |-> FALSE]]
  /\ UNCHANGED <<cfgReplicas, cell, subs, crowd, distW, rb,  distWrites,
                 subLog, used>>

\* ------------------------------------------------------------------------
\* Summoner: the single-slot registry
\* ------------------------------------------------------------------------
VARIABLES
  smCalls,     \* every public call made so far, with its progress
  smQueue,     \* Mutex._queue: indices of smCalls waiting for the mutex
  smBusy,      \* Mutex._busy
  smGhost,     \* Summoner._ghost
  smChildren,  \* every object the factory returned: "alive" or "destroyed"
  smRef        \* history: the reference of the resolved spawn calls

smVars == <<smCalls, smQueue, smBusy, smGhost, smChildren, smRef>>

NoGhost == [set |-> FALSE, params |-> Undefined, object |-> 0]

\* defaultCompare: hashOf(a) == hashOf(b)
DefaultCompare(a, b) == HashOf(a) = HashOf(b)

\* faulty variant: a respawn calls the factory without _kill
SummonerPlanNoKill(call, ghost) ==
  IF call.op = "spawn"
  THEN IF ghost.set /\ DefaultCompare(call.value, ghost.params) THEN <<>>
       ELSE <<Task("factory", "", call.value)>>
  ELSE IF ghost.set THEN <<Task("destroy", "", Undefined)>> ELSE <<>>

\* faulty variant: spawn never calls the factory
SummonerPlanNoSpawn(call, ghost) ==
  IF call.op = "kill" /\ ghost.set
  THEN <<Task("destroy", "", Undefined)>> ELSE <<>>

\* faulty variant: spawn keeps whatever child there is
SummonerPlanKeep(call, ghost) ==
  IF call.op = "spawn"
  THEN IF ghost.set THEN <<>> ELSE <<Task("factory", "", call.value)>>
  ELSE IF ghost.set THEN <<Task("destroy", "", Undefined)>> ELSE <<>>

\* the awaits of the callback of spawn (_maybeRespawn) and of kill (_kill),
\* as decided when the callback starts under the mutex
SummonerPlan(call, ghost) ==
  IF call.op = "spawn"
  THEN IF ghost.set
       THEN IF DefaultCompare(call.value, ghost.params) THEN <<>>
            ELSE <<Task("destroy", "", Undefined),
                   Task("factory", "", call.value)>>
       ELSE <<Task("factory", "", call.value)>>
  ELSE IF ghost.set THEN <<Task("destroy", "", Undefined)>> ELSE <<>>

\* the calls a user makes: spawn(params) and kill()
SummonerArguments ==
  {[op |-> "spawn", value |-> v, status |-> "queued", tasks |-> <<>>] :
     v \in SpawnerValues}
  \cup {[op |-> "kill", value |-> Undefined, status |-> "queued",
         tasks |-> <<>>]}

\* Mutex._next: the first queued callback starts and runs to its first await
SummonerMutexNext(calls, queue, ghost) ==
  IF queue = <<>>
  THEN [calls |-> calls, queue |-> queue, busy |-> FALSE]
  ELSE LET id == Head(queue)
           tasks == SummonerPlan(calls[id], ghost)
       IN [calls |-> [calls EXCEPT
                        ![id].status = IF tasks = <<>> THEN "ok" ELSE "running",
                        ![id].tasks = tasks],
           queue |-> Tail(queue),
           busy |-> TRUE]

SmInit ==
  /\ smCalls = <<>>
  /\ smQueue = <<>>
  /\ smBusy = FALSE
  /\ smGhost = NoGhost
  /\ smChildren = <<>>
  /\ smRef = [set |-> FALSE, params |-> Undefined, changes |-> 0,
              clean |-> TRUE]

\* Mutex.lock(callback) for a call of spawn or kill: the callback starts at
\* once when the mutex is free and waits in the queue otherwise
SummonerLock(call) ==
  LET calls == Append(smCalls, call)
      queue == Append(smQueue, Len(calls))
  IN IF smBusy
     THEN [calls |-> calls, queue |-> queue, busy |-> smBusy]
     ELSE SummonerMutexNext(calls, queue, smGhost)

\* spawn(params) or kill() is called
SummonerCall ==
  /\ Len(smCalls) < MaxSummons
  /\ \E call \in SummonerArguments :
       /\ smCalls' = SummonerLock(call).calls
       /\ smQueue' = SummonerLock(call).queue
       /\ smBusy' = SummonerLock(call).busy
       /\ smRef' = [smRef EXCEPT !.clean = @ /\ call.op = "spawn"]
  /\ UNCHANGED <<smGhost, smChildren>>

\* the running callback after the await at the head of its tasks
SummonerStep(calls, id, ok) ==
  [calls EXCEPT
     ![id].tasks = IF ok THEN Tail(@) ELSE <<>>,
     ![id].status = IF ~ok THEN "err"
                    ELSE IF Len(calls[id].tasks) = 1 THEN "ok" ELSE "running"]

\* _spawn: the awaited factory returns an object, which becomes the ghost,
\* or throws
SummonerFactoryReturn ==
  \E id \in 1..Len(smCalls), ok \in BOOLEAN :
    /\ smCalls[id].status = "running"
    /\ Head(smCalls[id].tasks).t = "factory"
    /\ smCalls' = SummonerStep(smCalls, id, ok)
    /\ IF ok
       THEN /\ smChildren' = Append(smChildren, "alive")
            /\ smGhost' = [set |-> TRUE,
                           params |-> Head(smCalls[id].tasks).value,
                           object |-> Len(smChildren) + 1]
            /\ smRef' = smRef
       ELSE /\ smRef' = [smRef EXCEPT !.clean = FALSE]
            /\ UNCHANGED <<smGhost, smChildren>>
    /\ UNCHANGED <<smQueue, smBusy>>

\* _kill: the awaited destroy() of the ghost's object returns and the ghost
\* is dropped, or it throws and the ghost stays
SummonerChildDestroyed ==
  \E id \in 1..Len(smCalls), ok \in BOOLEAN :
    /\ smCalls[id].status = "running"
    /\ Head(smCalls[id].tasks).t = "destroy"
    /\ smCalls' = SummonerStep(smCalls, id, ok)
    /\ IF ok
       THEN /\ smChildren' = [smChildren EXCEPT ![smGhost.object] = "destroyed"]
            /\ smGhost' = NoGhost
            /\ smRef' = smRef
       ELSE /\ smRef' = [smRef EXCEPT !.clean = FALSE]
            /\ UNCHANGED <<smGhost, smChildren>>
    /\ UNCHANGED <<smQueue, smBusy>>

\* the reference: the argument of the most recent resolved spawn that was
\* not compare-equal to its predecessor
SummonerRefAfter(ref, call) ==
  IF call.op = "spawn" /\ call.status = "ok"
     /\ (~ref.set \/ ~DefaultCompare(call.value, ref.params))
  THEN [ref EXCEPT !.set = TRUE, !.params = call.value, !.changes = @ + 1]
  ELSE ref

\* the callback's promise settles: lock() resolves or rejects and the mutex
\* is handed on
SummonerNext ==
  \E id \in 1..Len(smCalls) :
    /\ smCalls[id].status \in {"ok", "err"}
    /\ LET settled == [smCalls EXCEPT ![id] =
                         [op |-> @.op, value |-> Undefined, tasks |-> <<>>,
                          status |-> IF @.status = "ok"
                                     THEN "resolved" ELSE "rejected"]]
           next == SummonerMutexNext(settled, smQueue, smGhost)
       IN /\ smCalls' = next.calls
          /\ smQueue' = next.queue
          /\ smBusy' = next.busy
    /\ smRef' = SummonerRefAfter(smRef, smCalls[id])
    /\ UNCHANGED <<smGhost, smChildren>>

\* ------------------------------------------------------------------------
\* Watcher: one watch over a bucket that is written before and after
\* ------------------------------------------------------------------------
VARIABLES
  wtKv,     \* the bucket: the last entry of every key
  wtSeq,    \* the stream sequence of the bucket
  wtW,      \* Watcher._updates: the iterator and where its snapshot ends
  wtPc,     \* Watcher.init: "new", "waiting" (on resume) or "returned"
  wtBusy,   \* the listener is awaiting the user callback
  wtLog,    \* history: the updates the user callback was invoked with
  wtStart   \* history: the entries in the bucket when the watch started

wtVars == <<wtKv, wtSeq, wtW, wtPc, wtBusy, wtLog, wtStart>>

WatcherKeys == {"a", "b"}

\* entryToUpdate
EntryToUpdate(entry, online) ==
  [operation |-> entry.operation, revision |-> entry.revision,
   online |-> online, key |-> entry.key,
   value |-> IF entry.operation = "PUT" THEN entry.value ELSE Undefined]

WtInit ==
  /\ wtKv = [k \in WatcherKeys |-> NoEntry]
  /\ wtSeq = 0
  /\ wtW = NoWatcher
  /\ wtPc = "new"
  /\ wtBusy = FALSE
  /\ wtLog = <<>>
  /\ wtStart = <<>>

\* somebody puts or deletes a key of the bucket; the stream delivers the
\* entry to the watcher if it has started
WatcherWrite ==
  \E k \in WatcherKeys, operation \in {"PUT", "DEL"} :
    /\ wtSeq < MaxWrites
    /\ operation = "DEL" => wtKv[k].operation = "PUT"
    /\ wtSeq' = wtSeq + 1
    /\ wtKv' = [wtKv EXCEPT ![k] = [operation |-> operation,
                                    revision |-> wtSeq + 1, value |-> 1]]
    /\ wtW' = Feed(wtW, Update(operation, wtSeq + 1, k, 1))
    /\ UNCHANGED <<wtPc, wtBusy, wtLog, wtStart>>

\* Watcher.init up to its await: kv.watch and the listener start; with an
\* empty snapshot initializedFn has run already and init returns
WatcherInit ==
  /\ wtPc = "new"
  /\ LET snapshot == Snapshot(wtKv, WatcherKeys)
     IN /\ wtW' = StartWatcher(snapshot)
        /\ wtStart' = snapshot
        /\ wtPc' = IF Online(StartWatcher(snapshot))
                   THEN "returned" ELSE "waiting"
  /\ UNCHANGED <<wtKv, wtSeq, wtBusy, wtLog>>

\* faulty variant: the listener does not await the user callback
WatcherDeliverNoAwait ==
  /\ wtW.active
  /\ wtW.q # <<>>
  /\ wtLog' = Append(wtLog, [update |-> EntryToUpdate(Head(wtW.q), Online(wtW)),
                            done |-> FALSE])
  /\ wtBusy' = TRUE
  /\ UNCHANGED <<wtKv, wtSeq, wtW, wtPc, wtStart>>

\* Listener._listen: the next entry is converted with the current online and
\* the user callback is invoked
WatcherDeliver ==
  /\ wtW.active
  /\ ~wtBusy
  /\ wtW.q # <<>>
  /\ wtLog' = Append(wtLog, [update |-> EntryToUpdate(Head(wtW.q), Online(wtW)),
                            done |-> FALSE])
  /\ wtBusy' = TRUE
  /\ UNCHANGED <<wtKv, wtSeq, wtW, wtPc, wtStart>>

\* the user callback returns or throws (the listener reports and goes on);
\* the iterator moves on, past the end of the snapshot it runs initializedFn
WatcherCallbackDone ==
  /\ wtBusy
  /\ wtLog' = [wtLog EXCEPT ![Len(wtLog)].done = TRUE]
  /\ wtBusy' = FALSE
  /\ wtW' = Taken(wtW)
  /\ UNCHANGED <<wtKv, wtSeq, wtPc, wtStart>>

\* initializedFn has called resume: init returns
WatcherResume ==
  /\ wtPc = "waiting"
  /\ Online(wtW)
  /\ wtPc' = "returned"
  /\ UNCHANGED <<wtKv, wtSeq, wtW, wtBusy, wtLog, wtStart>>

\* ------------------------------------------------------------------------
\* Mutex: lock(key, callback) on one key of the locks bucket
\* ------------------------------------------------------------------------
VARIABLES
  lkKey,      \* the last entry of the key: operation and revision
  lkSeq,      \* the stream sequence of the locks bucket
  lkCalls,    \* per caller: position, revision acquired, retry, runs of f,
              \* the error of giving up, and (history) the revision of
              \* another holder's entry that its cleanup found
  lkRetries,  \* the retries option of the retry around the attempt
  lkExpired,  \* history: how many times the TTL removed the key
  lkOverrun   \* history: the TTL removed the key while its holder was inside

lkVars == <<lkKey, lkSeq, lkCalls, lkRetries, lkExpired, lkOverrun>>

LockCallers == 1..MaxLockers

\* Bucket.lock passes retries: 0
BucketLockRetries == 0

\* faulty variant: create succeeds whatever is stored
KvCreateAlways(entry) == TRUE

\* kv.create succeeds when the key has no value: never written, deleted or
\* expired; otherwise it fails with 10071
KvCreate(entry) == entry.operation # "PUT"

\* faulty variant: delete without the revision guard
KvDeleteAlways(entry, previousSeq) == TRUE

\* kv.delete with previousSeq succeeds when the last entry of the key has
\* that revision; otherwise it fails with 10071
KvDelete(entry, previousSeq) == entry.revision = previousSeq

\* faulty variant: cleanup only after the callback succeeded
AnywayOnSuccess(threw) == ~threw

\* anyway: cleanup runs after the callback returned and after it threw
Anyway(threw) == TRUE

\* retry: another attempt is made after an error that when() accepts while
\* retry < retries
RetryAgain(retry, retries) == retry < retries

\* the error lock rejects with when retry gives up on a held key:
\* MutexCell.lock, with the default retries, 'cannot acquire lock';
\* Bucket.lock, with retries: 0, 'lock failed'
GiveUpError(retries) ==
  IF retries = BucketLockRetries THEN "lock failed" ELSE "cannot acquire lock"

\* no lock call was made
LkIdle ==
  /\ lkKey = [operation |-> "NONE", revision |-> 0]
  /\ lkSeq = 0
  /\ lkCalls = <<>>
  /\ lkRetries = 0
  /\ lkExpired = 0
  /\ lkOverrun = FALSE

LkInit ==
  /\ lkKey = [operation |-> "NONE", revision |-> 0]
  /\ lkSeq = 0
  /\ lkCalls = [c \in LockCallers |->
                  [pc |-> "idle", revision |-> 0, retry |-> 0, runs |-> 0,
                   threw |-> FALSE, error |-> "", kept |-> 0]]
  /\ lkRetries \in {Retries, BucketLockRetries}
  /\ lkExpired = 0
  /\ lkOverrun = FALSE

\* a peer calls lock(key, f)
LockCall(c) ==
  /\ lkCalls[c].pc = "idle"
  /\ lkCalls' = [lkCalls EXCEPT ![c].pc = "try"]
  /\ UNCHANGED <<lkKey, lkSeq, lkRetries, lkExpired, lkOverrun>>

\* one attempt: kv.create; on success f starts, on 10071 the locked error is
\* thrown into retry, which waits and tries again or gives up
LockCreate(c) ==
  /\ lkCalls[c].pc = "try"
  /\ IF KvCreate(lkKey)
     THEN /\ lkSeq' = lkSeq + 1
          /\ lkKey' = [operation |-> "PUT", revision |-> lkSeq + 1]
          /\ lkCalls' = [lkCalls EXCEPT ![c].pc = "body",
                                        ![c].revision = lkSeq + 1,
                                        ![c].runs = @ + 1]
     ELSE /\ lkCalls' = IF RetryAgain(lkCalls[c].retry, lkRetries)
                        THEN [lkCalls EXCEPT ![c].retry = @ + 1]
                        ELSE [lkCalls EXCEPT
                                ![c].pc = "locked",
                                ![c].error = GiveUpError(lkRetries)]
          /\ UNCHANGED <<lkKey, lkSeq>>
  /\ UNCHANGED <<lkRetries, lkExpired, lkOverrun>>

\* f returns or throws
LockBodyDone(c) ==
  /\ lkCalls[c].pc = "body"
  /\ \E threw \in BOOLEAN :
       lkCalls' = [lkCalls EXCEPT ![c].pc = "release", ![c].threw = threw]
  /\ UNCHANGED <<lkKey, lkSeq, lkRetries, lkExpired, lkOverrun>>

\* the cleanup of anyway: kv.delete guarded by the acquired revision, 10071
\* ignored; then lock resolves, or rejects with the error of f, which retry
\* does not accept
LockRelease(c) ==
  /\ lkCalls[c].pc = "release"
  /\ IF Anyway(lkCalls[c].threw) /\ KvDelete(lkKey, lkCalls[c].revision)
     THEN /\ lkSeq' = lkSeq + 1
          /\ lkKey' = [operation |-> "DEL", revision |-> lkSeq + 1]
     ELSE UNCHANGED <<lkKey, lkSeq>>
  /\ lkCalls' = [lkCalls EXCEPT
                   ![c].pc = IF lkCalls[c].threw THEN "failed" ELSE "resolved",
                   ![c].kept = IF lkKey.operation = "PUT"
                                  /\ lkKey.revision # lkCalls[c].revision
                               THEN lkKey.revision ELSE 0]
  /\ UNCHANGED <<lkRetries, lkExpired, lkOverrun>>

\* the TTL of the bucket (lockTimeout) removes the entry of the key
LockExpire ==
  /\ lkExpired < MaxExpiries
  /\ lkKey.operation # "NONE"
  /\ lkKey' = [operation |-> "NONE", revision |-> 0]
  /\ lkExpired' = lkExpired + 1
  /\ lkOverrun' = (lkOverrun \/ \E c \in LockCallers :
                                  /\ lkCalls[c].pc \in {"body", "release"}
                                  /\ lkCalls[c].revision = lkKey.revision)
  /\ UNCHANGED <<lkSeq, lkCalls, lkRetries>>

\* ------------------------------------------------------------------------
\* Bucket.mutate and Bucket.mutateUsing: concurrent calls on one key
\* ------------------------------------------------------------------------
VARIABLES
  muCell,    \* the entry of the key: revision and value (0: no entry)
  muCalls,   \* per caller: the method called, whether its f writes,
             \* position, what kv.get returned, retry
  muWrites   \* history: how many writes were taken

muVars == <<muCell, muCalls, muWrites>>

Mutators == 1..MaxMutators

MuIdle == muCell = NoEntry /\ muCalls = <<>> /\ muWrites = 0

\* the key has no entry; every caller has called mutateUsing(key, f) with
\* f = (prev, use) => use((prev ?? 0) + 1)
MuInit ==
  /\ muCell = NoEntry
  /\ muCalls = [c \in Mutators |->
                  [api |-> "mutateUsing", writes |-> TRUE,
                   pc |-> "get", expect |-> 0, prev |-> 0, retry |-> 0]]
  /\ muWrites = 0

\* the key has no entry; every caller has called mutate(key, f) or
\* mutateUsing(key, f); an f that writes computes (prev ?? 0) + 1; an f
\* that does not returns prev to mutate and does not call use in
\* mutateUsing
MuAnyInit ==
  /\ muCell = NoEntry
  /\ muCalls \in [Mutators ->
                    [api : {"mutate", "mutateUsing"}, writes : BOOLEAN,
                     pc : {"get"}, expect : {0}, prev : {0}, retry : {0}]]
  /\ muWrites = 0

\* kv.get: the entry's revision and decoded value, or no entry
MutateGet(c) ==
  /\ muCalls[c].pc = "get"
  /\ muCalls' = [muCalls EXCEPT
                   ![c].pc = "use",
                   ![c].expect = muCell.revision,
                   ![c].prev = IF muCell.operation = "PUT"
                               THEN muCell.value ELSE 0]
  /\ UNCHANGED <<muCell, muWrites>>

\* the callback has run. mutateUsing: f calls use(next) or returns without
\* calling it; use is kv.update with the revision read, or kv.create; on
\* 10071 retry runs the whole cycle again unless the retries are used up.
\* mutate: the value f returned is written by kv.update with the revision
\* read, or kv.create, and a 10071 rejects the call
MutateUse(c) ==
  /\ muCalls[c].pc = "use"
  /\ IF muCalls[c].api = "mutateUsing" /\ ~muCalls[c].writes
     THEN /\ muCalls' = [muCalls EXCEPT ![c].pc = "resolved"]
          /\ UNCHANGED <<muCell, muWrites>>
     ELSE IF Cas(muCell, muCalls[c].expect)
     THEN /\ muCell' = [operation |-> "PUT", revision |-> muCell.revision + 1,
                        value |-> IF muCalls[c].writes
                                  THEN muCalls[c].prev + 1
                                  ELSE muCalls[c].prev]
          /\ muWrites' = muWrites + 1
          /\ muCalls' = [muCalls EXCEPT ![c].pc = "resolved"]
     ELSE /\ muCalls' = IF /\ muCalls[c].api = "mutateUsing"
                           /\ RetryAgain(muCalls[c].retry, Retries)
                        THEN [muCalls EXCEPT ![c].pc = "get",
                                             ![c].retry = @ + 1]
                        ELSE [muCalls EXCEPT ![c].pc = "rejected"]
          /\ UNCHANGED <<muCell, muWrites>>

\* ------------------------------------------------------------------------
\* Consumer: the subscribe heartbeat over a Summoner, and the deliveries
\* of one message to its subscription
\* ------------------------------------------------------------------------
VARIABLES
  coTick,         \* Consumer._subscribe: position, retry, summoner call
  coTicks,        \* how many times _subscribe was started
  coErrorCalled,  \* the subscriptions whose _errorCalled is set
  coCap,          \* the cap of the nak delay of the message handler
  coMsg,          \* the message: where it is and its redeliveryCount
  coLog,          \* history: the outcome of every delivery
  coMissed,       \* history: every HeartbeatsMissed status delivered
  coSink,         \* history: the errors given to uncaughtException
  coDestroy       \* Consumer.destroy: position and summoner call

coVars == <<coTick, coTicks, coErrorCalled, coCap, coMsg, coLog, coMissed,
            coSink, coDestroy>>

\* Consumer._subscribe: retries: 2
ConsumerRetries == 2

\* ConsumerSubscription: Math.min(..., 60_000)
ConsumerNakCap == 60000

\* StreamSubscription: Math.min(..., 120_000)
StreamNakCap == 120000

CoIdleTick == [pc |-> "idle", retry |-> 0, id |-> 0]

CoNoDestroy == [pc |-> "none", id |-> 0, inFlight |-> FALSE]

CoInit ==
  /\ coTick = CoIdleTick
  /\ coTicks = 0
  /\ coErrorCalled = {}
  /\ coCap \in {ConsumerNakCap, StreamNakCap}
  /\ coMsg = [pc |-> "stream", redeliveryCount |-> 0, object |-> 0]
  /\ coLog = <<>>
  /\ coMissed = <<>>
  /\ coSink = <<>>
  /\ coDestroy = CoNoDestroy

\* a Consumer whose stream holds no message
CoLifeInit ==
  /\ coTick = CoIdleTick
  /\ coTicks = 0
  /\ coErrorCalled = {}
  /\ coCap = ConsumerNakCap
  /\ coMsg = [pc |-> "none", redeliveryCount |-> 0, object |-> 0]
  /\ coLog = <<>>
  /\ coMissed = <<>>
  /\ coSink = <<>>
  /\ coDestroy = CoNoDestroy

\* no consumer was made
CoIdle ==
  /\ coTick = CoIdleTick
  /\ coTicks = 0
  /\ coErrorCalled = {}
  /\ coCap = 0
  /\ coMsg = [pc |-> "none", redeliveryCount |-> 0, object |-> 0]
  /\ coLog = <<>>
  /\ coMissed = <<>>
  /\ coSink = <<>>
  /\ coDestroy = CoNoDestroy

\* faulty variant: a failed delivery is acknowledged as well
OutcomeAckAlways(ok, redeliveryCount, cap) ==
  [ok |-> ok, ack |-> TRUE, nak |-> ~ok,
   after |-> Min(1000 * (2 ^ redeliveryCount), cap)]

\* the messages listener after the awaited callback: message.ack() when it
\* returned, message.nak(after) when it threw
Outcome(ok, redeliveryCount, cap) ==
  [ok |-> ok, ack |-> ok, nak |-> ~ok,
   after |-> IF ok THEN 0 ELSE Min(1000 * (2 ^ redeliveryCount), cap)]

\* the summoner is given a call by the consumer
ConsumerSummon(op, value) ==
  LET call == [op |-> op, value |-> value, status |-> "queued",
               tasks |-> <<>>]
  IN /\ smCalls' = SummonerLock(call).calls
     /\ smQueue' = SummonerLock(call).queue
     /\ smBusy' = SummonerLock(call).busy
     /\ smRef' = [smRef EXCEPT !.clean = @ /\ op = "spawn"]
     /\ UNCHANGED <<smGhost, smChildren>>

\* faulty variant: the catch branch reports and leaves the summoner alone
ConsumerAttemptFailedNoKill ==
  IF RetryAgain(coTick.retry, ConsumerRetries)
  THEN /\ coTick' = [pc |-> "call", retry |-> coTick.retry + 1, id |-> 0]
       /\ UNCHANGED <<smVars, coSink>>
  ELSE /\ coTick' = CoIdleTick
       /\ coSink' = Append(coSink, "consumer heartbeat failed")
       /\ UNCHANGED smVars

\* an attempt of _subscribe failed: retry makes another one while
\* retry < retries, otherwise the catch branch awaits summoner.kill()
ConsumerAttemptFailed ==
  IF RetryAgain(coTick.retry, ConsumerRetries)
  THEN /\ coTick' = [pc |-> "call", retry |-> coTick.retry + 1, id |-> 0]
       /\ UNCHANGED <<smVars, coSink>>
  ELSE /\ coTick' = [coTick EXCEPT !.pc = "kill", !.id = Len(smCalls) + 1]
       /\ coSink' = Append(coSink, "consumer heartbeat failed")
       /\ ConsumerSummon("kill", Undefined)

\* init, and afterwards the heartbeat timer once the previous run has
\* finished, starts _subscribe
ConsumerTick ==
  /\ coTick.pc = "idle"
  /\ coDestroy.pc = "none"
  /\ coTicks < MaxTicks
  /\ coTicks' = coTicks + 1
  /\ coTick' = [pc |-> "call", retry |-> 0, id |-> 0]
  /\ UNCHANGED <<smVars, coErrorCalled, coCap, coMsg, coLog, coMissed, coSink,
                 coDestroy>>

\* the subscribe request returns {stream} and is handed to summoner.spawn,
\* or it fails
ConsumerCallReturn ==
  /\ coTick.pc = "call"
  /\ \/ \E response \in SpawnerValues :
          /\ coTick' = [coTick EXCEPT !.pc = "spawn", !.id = Len(smCalls) + 1]
          /\ ConsumerSummon("spawn", response)
          /\ UNCHANGED coSink
     \/ ConsumerAttemptFailed
  /\ UNCHANGED <<coTicks, coErrorCalled, coCap, coMsg, coLog, coMissed,
                 coDestroy>>

\* the awaited spawn or kill settles
ConsumerSettled ==
  /\ coTick.pc \in {"spawn", "kill"}
  /\ smCalls[coTick.id].status \in {"resolved", "rejected"}
  /\ IF coTick.pc = "spawn" /\ smCalls[coTick.id].status = "rejected"
     THEN ConsumerAttemptFailed
     ELSE coTick' = CoIdleTick /\ UNCHANGED <<smVars, coSink>>
  /\ UNCHANGED <<coTicks, coErrorCalled, coCap, coMsg, coLog, coMissed,
                 coDestroy>>

\* the counts the heartbeat monitor of subscription o reports next: 2
\* when a run of misses starts, and one more than the last while it goes on
MissCounts(o) ==
  {2} \cup {n \in 3..MaxMissCount :
              /\ coMissed # <<>>
              /\ coMissed[Len(coMissed)].object = o
              /\ coMissed[Len(coMissed)].n = n - 1}

\* faulty variant: _errorCalled is not looked at
ErrorFiresAgain(n, errorCalled) == n = 2

\* the statuses listener: n == 2 && !this._errorCalled
ErrorFires(n, errorCalled) == n = 2 /\ ~errorCalled

\* the statuses listener of the live subscription gets HeartbeatsMissed
\* with count n: on n = 2, once per subscription, the error callback runs,
\* which reports to the sink and calls summoner.kill()
ConsumerHeartbeatsMissed ==
  /\ smGhost.set
  /\ Len(coMissed) < MaxMisses
  /\ \E n \in MissCounts(smGhost.object) :
       LET o == smGhost.object
           fires == ErrorFires(n, o \in coErrorCalled)
       IN /\ coMissed' = Append(coMissed,
                                [object |-> o, n |-> n, fired |-> fires,
                                 id |-> IF fires THEN Len(smCalls) + 1 ELSE 0])
          /\ IF fires
             THEN /\ coErrorCalled' = coErrorCalled \cup {o}
                  /\ coSink' = Append(coSink, "consumer subscription failed")
                  /\ ConsumerSummon("kill", Undefined)
             ELSE UNCHANGED <<coErrorCalled, coSink, smVars>>
  /\ UNCHANGED <<coTick, coTicks, coCap, coMsg, coLog, coDestroy>>

\* the live subscription is delivered the message and awaits the callback
ConsumerDeliver ==
  /\ coMsg.pc = "stream"
  /\ coMsg.redeliveryCount < MaxDeliveries
  /\ smGhost.set
  /\ coMsg' = [coMsg EXCEPT !.pc = "callback", !.object = smGhost.object]
  /\ UNCHANGED <<smVars, coTick, coTicks, coErrorCalled, coCap, coLog,
                 coMissed, coSink, coDestroy>>

\* the callback returns or throws: ack, or nak with the delay; a message
\* that was not acknowledged is delivered again
ConsumerCallbackDone ==
  /\ coMsg.pc = "callback"
  /\ \E ok \in BOOLEAN :
       LET outcome == Outcome(ok, coMsg.redeliveryCount, coCap)
       IN /\ coLog' = Append(coLog, outcome)
          /\ coMsg' = IF outcome.ack
                      THEN [coMsg EXCEPT !.pc = "acked"]
                      ELSE [coMsg EXCEPT !.pc = "stream",
                                         !.redeliveryCount = @ + 1]
  /\ UNCHANGED <<smVars, coTick, coTicks, coErrorCalled, coCap, coMissed,
                 coSink, coDestroy>>

\* Consumer.destroy() once init has returned: Autodestructible destroys in
\* reverse order of use, so the heartbeat timer first (no later tick
\* starts, a running one is not awaited), then summoner.destroy(), which
\* is a locked _kill like kill()
ConsumerDestroy ==
  /\ coDestroy.pc = "none"
  /\ coTicks >= 1
  /\ coTick.pc = "idle" \/ coTicks >= 2
  /\ coDestroy' = [pc |-> "summoner", id |-> Len(smCalls) + 1,
                   inFlight |-> coTick.pc # "idle"]
  /\ ConsumerSummon("kill", Undefined)
  /\ UNCHANGED <<coTick, coTicks, coErrorCalled, coCap, coMsg, coLog,
                 coMissed, coSink>>

\* the awaited summoner.destroy() settles and Consumer.destroy() with it
ConsumerDestroyed ==
  /\ coDestroy.pc = "summoner"
  /\ smCalls[coDestroy.id].status \in {"resolved", "rejected"}
  /\ coDestroy' = [coDestroy EXCEPT
                     !.pc = IF smCalls[coDestroy.id].status = "resolved"
                            THEN "done" ELSE "failed"]
  /\ UNCHANGED <<smVars, coTick, coTicks, coErrorCalled, coCap, coMsg, coLog,
                 coMissed, coSink>>

\* ------------------------------------------------------------------------
\* Timer: a callback of any duration, the timeouts firing exactly; and
\* the heartbeat of a Producer, whose callback re-puts instances.<ownId>
\* ------------------------------------------------------------------------
VARIABLES
  tmNow,        \* Date.now()
  tmEpoch,      \* history: Date.now() when the Timer was constructed
  tmStarted,    \* Timer._started
  tmArmed,      \* when the timeout of Timer._timer fires; -1: none
  tmPc,         \* "new", "armed", "callback" or "stopped"
  tmTicks,      \* history: the times of the ticks
  tmDestroyed,  \* Timer._destroyed
  tmRunning,    \* the number of callbacks that have not settled
  tmSink,       \* history: the errors reported to uncaughtException
  hbPc,         \* Producer.destroy: "running", "stopping", "deleting",
                \* "destroyed"; "none": the timer has no producer
  hbOutbox,     \* the writes of instances.<ownId> sent on the connection
                \* and not yet stored
  hbRecord,     \* the last operation stored for instances.<ownId>
  hbInFlight    \* history: a tick was in flight when destroy began

hbVars == <<hbPc, hbOutbox, hbRecord, hbInFlight>>

tmVars == <<tmNow, tmEpoch, tmStarted, tmArmed, tmPc, tmTicks, tmDestroyed,
            tmRunning, tmSink, hbVars>>

\* the timer has no producer
HbIdle ==
  /\ hbPc = "none"
  /\ hbOutbox = <<>>
  /\ hbRecord = "NONE"
  /\ hbInFlight = FALSE

\* no timer was made
TmIdle ==
  /\ tmNow = 0
  /\ tmEpoch = 0
  /\ tmStarted = 0
  /\ tmArmed = -1
  /\ tmPc = "none"
  /\ tmTicks = <<>>
  /\ tmDestroyed = FALSE
  /\ tmRunning = 0
  /\ tmSink = 0
  /\ HbIdle

\* the constructor: _started = Date.now()
TmInit ==
  /\ tmNow \in 0..TimerInterval
  /\ tmEpoch = tmNow
  /\ tmStarted = tmNow
  /\ tmArmed = -1
  /\ tmPc = "new"
  /\ tmTicks = <<>>
  /\ tmDestroyed = FALSE
  /\ tmRunning = 0
  /\ tmSink = 0

\* faulty variant: the full interval is armed after every callback
TimeoutFixed(interval, now, started) == interval

\* _schedule: interval - (elapsed % interval), elapsed = now - started
Timeout(interval, now, started) == interval - ((now - started) % interval)

\* faulty variant: _schedule does not look at _destroyed
ScheduleAlways(destroyed, armed, now, started) ==
  now + Timeout(TimerInterval, now, started)

\* _schedule: the value of _timer after it; nothing is armed once the timer
\* is destroyed
Schedule(destroyed, armed, now, started) ==
  IF destroyed THEN armed ELSE now + Timeout(TimerInterval, now, started)

\* faulty variant: the tick arms the next one, as setInterval does
TimerAfterTickRearm(now) == now + TimerInterval

\* _tick: this._timer = undefined
TimerAfterTick(now) == -1

\* init: _schedule, some time after the constructor
TimerInit ==
  /\ tmPc = "new"
  /\ \E delay \in 0..MaxDuration :
       /\ tmNow' = tmNow + delay
       /\ tmArmed' = Schedule(tmDestroyed, tmArmed, tmNow', tmStarted)
  /\ tmPc' = "armed"
  /\ UNCHANGED <<tmEpoch, tmStarted, tmTicks, tmDestroyed, tmRunning, tmSink>>

\* _tick: the timeout fires; _started = now and the callback is called
TimerTick ==
  /\ tmArmed >= 0
  /\ tmArmed <= MaxTime
  /\ tmNow' = IF tmArmed > tmNow THEN tmArmed ELSE tmNow
  /\ tmStarted' = tmNow'
  /\ tmArmed' = TimerAfterTick(tmNow')
  /\ tmTicks' = Append(tmTicks, tmNow')
  /\ tmRunning' = tmRunning + 1
  /\ tmPc' = "callback"
  /\ UNCHANGED <<tmEpoch, tmDestroyed, tmSink>>

\* the callback settles after some time, resolved or rejected; a rejection
\* is reported to uncaughtException; then _schedule
TimerCallbackDone ==
  /\ tmRunning > 0
  /\ \E duration \in 0..MaxDuration, ok \in BOOLEAN :
       /\ tmNow' = tmNow + duration
       /\ tmArmed' = Schedule(tmDestroyed, tmArmed, tmNow', tmStarted)
       /\ tmSink' = IF ok THEN tmSink ELSE tmSink + 1
  /\ tmRunning' = tmRunning - 1
  /\ tmPc' = IF tmDestroyed THEN "stopped" ELSE "armed"
  /\ UNCHANGED <<tmEpoch, tmStarted, tmTicks, tmDestroyed>>

\* faulty variant: destroy sets the flag and leaves the timeout pending
TimerDestroyNoClear ==
  /\ tmPc \in {"armed", "callback"}
  /\ ~tmDestroyed
  /\ tmDestroyed' = TRUE
  /\ tmPc' = IF tmRunning > 0 THEN tmPc ELSE "stopped"
  /\ UNCHANGED <<tmNow, tmEpoch, tmStarted, tmArmed, tmTicks, tmRunning,
                 tmSink>>

\* destroy: clearTimeout of a pending timeout, and _destroyed = true
TimerDestroy ==
  /\ tmPc \in {"armed", "callback"}
  /\ ~tmDestroyed
  /\ tmArmed' = -1
  /\ tmDestroyed' = TRUE
  /\ tmPc' = IF tmRunning > 0 THEN tmPc ELSE "stopped"
  /\ UNCHANGED <<tmNow, tmEpoch, tmStarted, tmTicks, tmRunning, tmSink>>

\* a producer after init: its record is stored, its heartbeat timer is made
HbInit ==
  /\ TmInit
  /\ hbPc = "running"
  /\ hbOutbox = <<>>
  /\ hbRecord = "PUT"
  /\ hbInFlight = FALSE

\* the heartbeat callback: _online(new Date(now)) sends the put of the
\* record before the tick gives up control
HeartbeatTick ==
  /\ TimerTick
  /\ hbOutbox' = Append(hbOutbox, "PUT")
  /\ UNCHANGED <<hbPc, hbRecord, hbInFlight>>

\* the stream stores the writes of a connection in the order it sent them
KvStore ==
  /\ hbOutbox # <<>>
  /\ hbRecord' = Head(hbOutbox)
  /\ hbOutbox' = Tail(hbOutbox)
  /\ UNCHANGED <<tmNow, tmEpoch, tmStarted, tmArmed, tmPc, tmTicks,
                 tmDestroyed, tmRunning, tmSink, hbPc, hbInFlight>>

\* Producer.destroy: this._heartbeat.destroy(), followed by the destroy of
\* the service and of the two watches
ProducerDestroy ==
  /\ hbPc = "running"
  /\ TimerDestroy
  /\ hbPc' = "stopping"
  /\ hbInFlight' = (tmRunning > 0)
  /\ UNCHANGED <<hbOutbox, hbRecord>>

\* this._instances.delete(this._instance) is sent
ProducerDelete ==
  /\ hbPc = "stopping"
  /\ hbPc' = "deleting"
  /\ hbOutbox' = Append(hbOutbox, "DEL")
  /\ UNCHANGED <<tmNow, tmEpoch, tmStarted, tmArmed, tmPc, tmTicks,
                 tmDestroyed, tmRunning, tmSink, hbRecord, hbInFlight>>

\* the delete is stored; the bucket and the spawner are destroyed and
\* destroy returns
ProducerDestroyed ==
  /\ hbPc = "deleting"
  /\ \A i \in 1..Len(hbOutbox) : hbOutbox[i] # "DEL"
  /\ hbPc' = "destroyed"
  /\ UNCHANGED <<tmNow, tmEpoch, tmStarted, tmArmed, tmPc, tmTicks,
                 tmDestroyed, tmRunning, tmSink, hbOutbox, hbRecord,
                 hbInFlight>>

\* ------------------------------------------------------------------------
\* Listener: the loop over an async sequence, whose items are numbered and
\* whose callback fails on the items marked so
\* ------------------------------------------------------------------------
VARIABLES
  lsItems,      \* the sequence: for every item, whether the callback returns
  lsThrows,     \* whether the sequence ends by throwing
  lsPc,         \* _listen: "new", "waiting", "callback" or "ended"
  lsNext,       \* how many items the loop has taken
  lsDelivered,  \* history: the items handed to the callback
  lsPromise,    \* this._promise: "none", "pending", "resolved", "rejected"
  lsInit,       \* init(): "none", "resolved" or "rejected"
  lsDestroy,    \* destroy(): "none", "awaiting", "returned" or "rejected"
  lsSink        \* history: the errors given to uncaughtException

lsVars == <<lsItems, lsThrows, lsPc, lsNext, lsDelivered, lsPromise, lsInit,
            lsDestroy, lsSink>>

LsInit ==
  /\ lsItems \in UNION {[1..n -> BOOLEAN] : n \in 0..MaxItems}
  /\ lsThrows \in BOOLEAN
  /\ lsPc = "new"
  /\ lsNext = 0
  /\ lsDelivered = <<>>
  /\ lsPromise = "none"
  /\ lsInit = "none"
  /\ lsDestroy = "none"
  /\ lsSink = <<>>

\* no listener was made
LsIdle ==
  /\ lsItems = <<>>
  /\ lsThrows = FALSE
  /\ lsPc = "none"
  /\ lsNext = 0
  /\ lsDelivered = <<>>
  /\ lsPromise = "none"
  /\ lsInit = "none"
  /\ lsDestroy = "none"
  /\ lsSink = <<>>

\* faulty variant: no inner try/catch, the callback's error ends _listen
ListenerAfterCallbackThrow(ok) ==
  IF ok
  THEN [pc |-> "waiting", promise |-> "pending", report |-> <<>>]
  ELSE [pc |-> "ended", promise |-> "resolved",
        report |-> <<"listener failed">>]

\* _listen after the awaited callback: the inner catch reports and the loop
\* asks for the next item
ListenerAfterCallback(ok) ==
  [pc |-> "waiting", promise |-> "pending",
   report |-> IF ok THEN <<>> ELSE <<"listener callback failed">>]

\* init(): _listen starts and runs up to its first await, the request for
\* the first item; init returns
ListenerInit ==
  /\ lsPc = "new"
  /\ lsPc' = "waiting"
  /\ lsPromise' = "pending"
  /\ lsInit' = "resolved"
  /\ UNCHANGED <<lsItems, lsThrows, lsNext, lsDelivered, lsDestroy, lsSink>>

\* the sequence yields its next item, which is handed to the callback
ListenerItem ==
  /\ lsPc = "waiting"
  /\ lsNext < Len(lsItems)
  /\ lsNext' = lsNext + 1
  /\ lsDelivered' = Append(lsDelivered, lsNext + 1)
  /\ lsPc' = "callback"
  /\ UNCHANGED <<lsItems, lsThrows, lsPromise, lsInit, lsDestroy, lsSink>>

\* the awaited callback returns or throws
ListenerCallbackDone ==
  /\ lsPc = "callback"
  /\ LET after == ListenerAfterCallback(lsItems[lsNext])
     IN /\ lsPc' = after.pc
        /\ lsPromise' = after.promise
        /\ lsSink' = lsSink \o after.report
  /\ UNCHANGED <<lsItems, lsThrows, lsNext, lsDelivered, lsInit, lsDestroy>>

\* the sequence is over: it is done, or it throws and the outer catch
\* reports; either way _listen returns
ListenerSequenceEnd ==
  /\ lsPc = "waiting"
  /\ lsNext = Len(lsItems)
  /\ lsPc' = "ended"
  /\ lsPromise' = "resolved"
  /\ lsSink' = IF lsThrows THEN Append(lsSink, "listener failed") ELSE lsSink
  /\ UNCHANGED <<lsItems, lsThrows, lsNext, lsDelivered, lsInit, lsDestroy>>

\* destroy() is called: await this._promise
ListenerDestroy ==
  /\ lsInit = "resolved"
  /\ lsDestroy = "none"
  /\ lsDestroy' = "awaiting"
  /\ UNCHANGED <<lsItems, lsThrows, lsPc, lsNext, lsDelivered, lsPromise,
                 lsInit, lsSink>>

\* the awaited promise settles and destroy() with it
ListenerDestroyed ==
  /\ lsDestroy = "awaiting"
  /\ lsPromise \in {"resolved", "rejected"}
  /\ lsDestroy' = IF lsPromise = "resolved" THEN "returned" ELSE "rejected"
  /\ UNCHANGED <<lsItems, lsThrows, lsPc, lsNext, lsDelivered, lsPromise,
                 lsInit, lsSink>>

\* ------------------------------------------------------------------------
\* retry: one loop under the signal of an Autoabortable, its rejection
\* being given to the uncaught-exception sink
\* ------------------------------------------------------------------------
VARIABLES
  rtRetries,   \* options.retries
  rtPc,        \* "attempt", "sleep", "resolved" or "rejected"
  rtRetry,     \* retry
  rtAlive,     \* alive
  rtAbort,     \* whether abort is set, i.e. a back-off sleep is pending
  rtError,     \* what the loop rejected with: "attempt" or "shutdown"
  rtCalls,     \* how many times the callback was invoked
  rtSignal,    \* history: where the loop was when the signal came, and
               \* how many times the callback had been invoked by then
  rtSink       \* the sink: "none", "reported" or "suppressed"

rtVars == <<rtRetries, rtPc, rtRetry, rtAlive, rtAbort, rtError, rtCalls,
            rtSignal, rtSink>>

RtNoSignal == [at |-> "none", calls |-> 0]

\* retry(callback, {retries, signal}) has invoked the callback
RtInit ==
  /\ rtRetries \in 0..MaxRetries
  /\ rtPc = "attempt"
  /\ rtRetry = 0
  /\ rtAlive = TRUE
  /\ rtAbort = FALSE
  /\ rtError = ""
  /\ rtCalls = 1
  /\ rtSignal = RtNoSignal
  /\ rtSink = "none"

\* no retry loop was started
RtIdle ==
  /\ rtRetries = 0
  /\ rtPc = "none"
  /\ rtRetry = 0
  /\ rtAlive = TRUE
  /\ rtAbort = FALSE
  /\ rtError = ""
  /\ rtCalls = 0
  /\ rtSignal = RtNoSignal
  /\ rtSink = "none"

\* the catch branch: alive && retry < retries && when(err, retry), when
\* being the default
RetrySleeps(alive, retry, retries) == alive /\ RetryAgain(retry, retries)

\* the awaited callback returns, or it throws and the loop sleeps or
\* rethrows
RetryAttemptDone ==
  /\ rtPc = "attempt"
  /\ \E ok \in BOOLEAN :
       IF ok
       THEN /\ rtPc' = "resolved"
            /\ UNCHANGED <<rtAbort, rtError>>
       ELSE IF RetrySleeps(rtAlive, rtRetry, rtRetries)
            THEN /\ rtPc' = "sleep"
                 /\ rtAbort' = TRUE
                 /\ UNCHANGED rtError
            ELSE /\ rtPc' = "rejected"
                 /\ rtError' = "attempt"
                 /\ UNCHANGED rtAbort
  /\ UNCHANGED <<rtRetries, rtRetry, rtAlive, rtCalls, rtSignal, rtSink>>

\* the timeout of the sleep fires: abort is unset, retry++, and the
\* callback is invoked again
RetryWake ==
  /\ rtPc = "sleep"
  /\ rtAbort' = FALSE
  /\ rtRetry' = rtRetry + 1
  /\ rtCalls' = rtCalls + 1
  /\ rtPc' = "attempt"
  /\ UNCHANGED <<rtRetries, rtAlive, rtError, rtSignal, rtSink>>

\* Autoabortable.abort(): the listener of the signal rejects a pending
\* sleep with the reason, an AutoabortableError, and unsets alive
RetryAbort ==
  /\ rtPc \in {"attempt", "sleep"}
  /\ rtSignal.at = "none"
  /\ rtSignal' = [at |-> rtPc, calls |-> rtCalls]
  /\ rtAlive' = FALSE
  /\ IF rtAbort
     THEN rtPc' = "rejected" /\ rtError' = "shutdown"
     ELSE UNCHANGED <<rtPc, rtError>>
  /\ UNCHANGED <<rtRetries, rtRetry, rtAbort, rtCalls, rtSink>>

\* uncaughtException(err): an error whose root cause is an
\* AutoabortableError is dropped, any other is reported
RetrySink ==
  /\ rtPc = "rejected"
  /\ rtSink = "none"
  /\ rtSink' = IF rtError = "shutdown" THEN "suppressed" ELSE "reported"
  /\ UNCHANGED <<rtRetries, rtPc, rtRetry, rtAlive, rtAbort, rtError, rtCalls,
                 rtSignal>>

\* no listener and no retry loop
UtIdle == LsIdle /\ RtIdle

\* ------------------------------------------------------------------------
\* Specifications
\* ------------------------------------------------------------------------
vars ==
  <<distVars, spVars, prVars, smVars, wtVars, lkVars, muVars, coVars, tmVars,
    lsVars, rtVars>>

\* what the steps of one component leave alone
besidesDist ==
  <<spVars, prVars, smVars, wtVars, lkVars, muVars, coVars, tmVars, lsVars, rtVars>>
besidesSp ==
  <<distVars, prVars, smVars, wtVars, lkVars, muVars, coVars, tmVars, lsVars, rtVars>>
besidesPr ==
  <<distVars, spVars, smVars, wtVars, lkVars, muVars, coVars, tmVars, lsVars, rtVars>>
besidesSm ==
  <<distVars, spVars, prVars, wtVars, lkVars, muVars, coVars, tmVars, lsVars, rtVars>>
besidesWt ==
  <<distVars, spVars, prVars, smVars, lkVars, muVars, coVars, tmVars, lsVars, rtVars>>
besidesLk ==
  <<distVars, spVars, prVars, smVars, wtVars, muVars, coVars, tmVars, lsVars, rtVars>>
besidesMu ==
  <<distVars, spVars, prVars, smVars, wtVars, lkVars, coVars, tmVars, lsVars, rtVars>>
besidesCo ==
  <<distVars, spVars, prVars, wtVars, lkVars, muVars, tmVars, lsVars, rtVars>>
besidesTm ==
  <<distVars, spVars, prVars, smVars, wtVars, lkVars, muVars, coVars, lsVars,
    rtVars>>
besidesLs ==
  <<distVars, spVars, prVars, smVars, wtVars, lkVars, muVars, coVars, tmVars,
    rtVars>>
besidesRt ==
  <<distVars, spVars, prVars, smVars, wtVars, lkVars, muVars, coVars, tmVars,
    lsVars>>

DistNext ==
  \/ DistributeNextShard /\ UNCHANGED besidesDist
  \/ DistributeAssign /\ UNCHANGED besidesDist
  \/ DistributeEndShard /\ UNCHANGED besidesDist
  \/ DistributeReturn /\ UNCHANGED besidesDist

DistributeInit ==
  DistInit /\ SpIdle /\ PrIdle /\ SmInit /\ WtInit /\ LkIdle /\ MuIdle
  /\ CoIdle /\ TmIdle /\ UtIdle

SpecDistribute == DistributeInit /\ [][DistNext]_vars

SpNext ==
  \/ SpawnerCall /\ UNCHANGED besidesSp
  \/ SpawnerFactoryReturn /\ UNCHANGED besidesSp
  \/ SpawnerChildDestroyed /\ UNCHANGED besidesSp
  \/ SpawnerEachReturn /\ UNCHANGED besidesSp
  \/ SpawnerNext /\ UNCHANGED besidesSp

SpawnerInit ==
  SpInit /\ DistIdle /\ PrIdle /\ SmInit /\ WtInit /\ LkIdle /\ MuIdle
  /\ CoIdle /\ TmIdle /\ UtIdle

SpecSpawner == SpawnerInit /\ [][SpNext]_vars

\* the producers of one bucket joining, beating and leaving
Next ==
  \/ \E p \in Peers : InitDistributionWatch(p) /\ UNCHANGED besidesPr
  \/ \E p \in Peers : InitInstancesWatch(p) /\ UNCHANGED besidesPr
  \/ \E p \in Peers : InitOnline(p) /\ UNCHANGED besidesPr
  \/ \E p \in Peers : Heartbeat(p) /\ UNCHANGED besidesPr
  \/ \E p \in Peers : InstancesUpdate(p) /\ UNCHANGED besidesPr
  \/ \E p \in Peers : RebalanceGet(p) /\ UNCHANGED besidesPr
  \/ \E p \in Peers : RebalanceUse(p) /\ UNCHANGED besidesPr
  \/ \E p \in Peers : DistributionUpdate(p) /\ UNCHANGED besidesPr
  \/ \E p \in Peers : DestroyInstancesWatch(p) /\ UNCHANGED besidesPr
  \/ \E p \in Peers :
       DestroyDistributionWatch(p) /\ UNCHANGED besidesPr
  \/ \E p \in Peers : DestroyInstance(p) /\ UNCHANGED besidesPr

Init ==
  PrInit /\ DistIdle /\ SpIdle /\ SmInit /\ WtInit /\ LkIdle /\ MuIdle
  /\ CoIdle /\ TmIdle /\ UtIdle

Spec == Init /\ [][Next]_vars

\* the producers of one bucket joining and serving subscriptions
ShardsNext ==
  \/ \E p \in Peers : InitDistributionWatch(p) /\ UNCHANGED besidesPr
  \/ \E p \in Peers : InitInstancesWatch(p) /\ UNCHANGED besidesPr
  \/ \E p \in Peers : InitOnline(p) /\ UNCHANGED besidesPr
  \/ \E p \in Peers : InstancesUpdate(p) /\ UNCHANGED besidesPr
  \/ \E p \in Peers : RebalanceGet(p) /\ UNCHANGED besidesPr
  \/ \E p \in Peers : RebalanceUse(p) /\ UNCHANGED besidesPr
  \/ \E p \in Peers : DistributionUpdate(p) /\ UNCHANGED besidesPr
  \/ \E p \in Peers, s \in Range(Shards) :
       SubscriptionUpdate(p, s) /\ UNCHANGED besidesPr
  \/ \E p \in Peers : Subscribe(p) /\ UNCHANGED besidesPr
  \/ DeleteSubscription /\ UNCHANGED besidesPr

\* every peer runs with the default replicas
ShardsInit == Init /\ cfgReplicas = DefaultReplicas

SpecShards == ShardsInit /\ [][ShardsNext]_vars

\* the same, with a client that overwrites subscription records
HandlersNext ==
  \/ ShardsNext
  \/ PutSubscription /\ UNCHANGED besidesPr

HandlersInit == Init /\ cfgReplicas = DefaultReplicas

SpecHandlers == HandlersInit /\ [][HandlersNext]_vars

\* one Summoner and its callers
SmNext ==
  \/ SummonerCall /\ UNCHANGED besidesSm
  \/ SummonerFactoryReturn /\ UNCHANGED besidesSm
  \/ SummonerChildDestroyed /\ UNCHANGED besidesSm
  \/ SummonerNext /\ UNCHANGED besidesSm

SummonerInit ==
  SmInit /\ DistIdle /\ SpIdle /\ PrIdle /\ WtInit /\ LkIdle /\ MuIdle
  /\ CoIdle /\ TmIdle /\ UtIdle

SpecSummoner == SummonerInit /\ [][SmNext]_vars

\* one Watcher and the writers of its bucket
WtNext ==
  \/ WatcherWrite /\ UNCHANGED besidesWt
  \/ WatcherInit /\ UNCHANGED besidesWt
  \/ WatcherDeliver /\ UNCHANGED besidesWt
  \/ WatcherCallbackDone /\ UNCHANGED besidesWt
  \/ WatcherResume /\ UNCHANGED besidesWt

WatcherSpecInit ==
  WtInit /\ DistIdle /\ SpIdle /\ PrIdle /\ SmInit /\ LkIdle /\ MuIdle
  /\ CoIdle /\ TmIdle /\ UtIdle

SpecWatcher == WatcherSpecInit /\ [][WtNext]_vars

\* the callers of lock on one key, and the TTL
LkNext ==
  \/ \E c \in LockCallers : LockCall(c) /\ UNCHANGED besidesLk
  \/ \E c \in LockCallers : LockCreate(c) /\ UNCHANGED besidesLk
  \/ \E c \in LockCallers : LockBodyDone(c) /\ UNCHANGED besidesLk
  \/ \E c \in LockCallers : LockRelease(c) /\ UNCHANGED besidesLk
  \/ LockExpire /\ UNCHANGED besidesLk

LockInit ==
  LkInit /\ DistIdle /\ SpIdle /\ PrIdle /\ SmInit /\ WtInit /\ MuIdle /\ CoIdle /\ TmIdle /\ UtIdle

SpecLock == LockInit /\ [][LkNext]_vars

\* the callers of mutateUsing on one key
MuNext ==
  \/ \E c \in Mutators : MutateGet(c) /\ UNCHANGED besidesMu
  \/ \E c \in Mutators : MutateUse(c) /\ UNCHANGED besidesMu

MutateInit ==
  MuInit /\ DistIdle /\ SpIdle /\ PrIdle /\ SmInit /\ WtInit /\ LkIdle /\ CoIdle /\ TmIdle /\ UtIdle

SpecMutate == MutateInit /\ [][MuNext]_vars

\* the callers of mutate and mutateUsing on one key
MutateAnyInit ==
  /\ MuAnyInit /\ DistIdle /\ SpIdle /\ PrIdle /\ SmInit /\ WtInit
  /\ LkIdle /\ CoIdle /\ TmIdle /\ UtIdle

SpecMutateAny == MutateAnyInit /\ [][MuNext]_vars

\* one Consumer: its heartbeat, its summoner and one message
CoNext ==
  \/ ConsumerTick /\ UNCHANGED besidesCo
  \/ ConsumerCallReturn /\ UNCHANGED besidesCo
  \/ ConsumerSettled /\ UNCHANGED besidesCo
  \/ ConsumerHeartbeatsMissed /\ UNCHANGED besidesCo
  \/ ConsumerDeliver /\ UNCHANGED besidesCo
  \/ ConsumerCallbackDone /\ UNCHANGED besidesCo
  \/ SummonerFactoryReturn /\ UNCHANGED besidesSm
  \/ SummonerChildDestroyed /\ UNCHANGED besidesSm
  \/ SummonerNext /\ UNCHANGED besidesSm

ConsumerInit ==
  CoInit /\ SmInit /\ DistIdle /\ SpIdle /\ PrIdle /\ WtInit /\ LkIdle /\ MuIdle
  /\ TmIdle /\ UtIdle

SpecConsumer == ConsumerInit /\ [][CoNext]_vars

\* one Consumer from init to destroy: its heartbeat, its summoner and the
\* heartbeat monitor of its subscriptions
CoLifeNext ==
  \/ ConsumerTick /\ UNCHANGED besidesCo
  \/ ConsumerCallReturn /\ UNCHANGED besidesCo
  \/ ConsumerSettled /\ UNCHANGED besidesCo
  \/ ConsumerHeartbeatsMissed /\ UNCHANGED besidesCo
  \/ ConsumerDestroy /\ UNCHANGED besidesCo
  \/ ConsumerDestroyed /\ UNCHANGED besidesCo
  \/ SummonerFactoryReturn /\ UNCHANGED besidesSm
  \/ SummonerChildDestroyed /\ UNCHANGED besidesSm
  \/ SummonerNext /\ UNCHANGED besidesSm

ConsumerLifeInit ==
  CoLifeInit /\ SmInit /\ DistIdle /\ SpIdle /\ PrIdle /\ WtInit /\ LkIdle
  /\ MuIdle /\ TmIdle /\ UtIdle

SpecConsumerLife == ConsumerLifeInit /\ [][CoLifeNext]_vars

\* one Timer
TmNext ==
  \/ TimerInit /\ UNCHANGED hbVars /\ UNCHANGED besidesTm
  \/ TimerTick /\ UNCHANGED hbVars /\ UNCHANGED besidesTm
  \/ TimerCallbackDone /\ UNCHANGED hbVars /\ UNCHANGED besidesTm
  \/ TimerDestroy /\ UNCHANGED hbVars /\ UNCHANGED besidesTm

TimerSpecInit ==
  TmInit /\ HbIdle /\ DistIdle /\ SpIdle /\ PrIdle /\ SmInit /\ WtInit
  /\ LkIdle /\ MuIdle /\ CoIdle /\ UtIdle

SpecTimer == TimerSpecInit /\ [][TmNext]_vars

\* the heartbeat of one Producer, and its destroy
HbNext ==
  \/ TimerInit /\ UNCHANGED hbVars /\ UNCHANGED besidesTm
  \/ HeartbeatTick /\ UNCHANGED besidesTm
  \/ TimerCallbackDone /\ UNCHANGED hbVars /\ UNCHANGED besidesTm
  \/ KvStore /\ UNCHANGED besidesTm
  \/ ProducerDestroy /\ UNCHANGED besidesTm
  \/ ProducerDelete /\ UNCHANGED besidesTm
  \/ ProducerDestroyed /\ UNCHANGED besidesTm

HeartbeatInit ==
  HbInit /\ DistIdle /\ SpIdle /\ PrIdle /\ SmInit /\ WtInit /\ LkIdle
  /\ MuIdle /\ CoIdle /\ UtIdle

SpecHeartbeat == HeartbeatInit /\ [][HbNext]_vars

\* one Listener over one sequence
LsNext ==
  \/ ListenerInit /\ UNCHANGED besidesLs
  \/ ListenerItem /\ UNCHANGED besidesLs
  \/ ListenerCallbackDone /\ UNCHANGED besidesLs
  \/ ListenerSequenceEnd /\ UNCHANGED besidesLs
  \/ ListenerDestroy /\ UNCHANGED besidesLs
  \/ ListenerDestroyed /\ UNCHANGED besidesLs

ListenerSpecInit ==
  LsInit /\ RtIdle /\ DistIdle /\ SpIdle /\ PrIdle /\ SmInit /\ WtInit
  /\ LkIdle /\ MuIdle /\ CoIdle /\ TmIdle

SpecListener == ListenerSpecInit /\ [][LsNext]_vars

\* one retry loop, the abort of its signal and the sink
RtNext ==
  \/ RetryAttemptDone /\ UNCHANGED besidesRt
  \/ RetryWake /\ UNCHANGED besidesRt
  \/ RetryAbort /\ UNCHANGED besidesRt
  \/ RetrySink /\ UNCHANGED besidesRt

RetryInit ==
  RtInit /\ LsIdle /\ DistIdle /\ SpIdle /\ PrIdle /\ SmInit /\ WtInit
  /\ LkIdle /\ MuIdle /\ CoIdle /\ TmIdle

SpecRetry == RetryInit /\ [][RtNext]_vars

\* number of peers whose list contains shard
Holders(result, shard) == {k \in DOMAIN result : Includes(result[k], shard)}

\* C3: for every non-empty list of distinct peers, every list of distinct
\* shards and every replicas >= 1, distribute assigns each shard to exactly
\* min(replicas, |peers|) distinct peers, no peer's list contains a shard
\* twice and every listed name is one of the shards.
C3_ReplicaCount ==
  dPc = "done" =>
    /\ DOMAIN dResult = Range(dInstances)
    /\ \A k \in DOMAIN dResult :
         /\ IsDistinct(dResult[k])
         /\ Range(dResult[k]) \subseteq Range(dShards)
    /\ \A shard \in Range(dShards) :
         Cardinality(Holders(dResult, shard))
           = Min(dReplicas, Len(dInstances))

C3_Witness ==
  /\ dPc = "done"
  /\ Len(dInstances) = 3
  /\ Len(dShards) = 3
  /\ dReplicas = 2
  /\ \A shard \in Range(dShards) : Cardinality(Holders(dResult, shard)) = 2

\* C4: in the result of distribute the lengths of any two peers' shard
\* lists differ by at most 1.
C4_Balanced ==
  dPc = "done" =>
    \A k1, k2 \in DOMAIN dResult :
      Len(dResult[k1]) - Len(dResult[k2]) <= 1

C4_Witness ==
  /\ dPc = "done"
  /\ Len(dInstances) = 3
  /\ Len(dShards) = 2
  /\ dReplicas = 2
  /\ \E k1, k2 \in DOMAIN dResult : Len(dResult[k1]) = Len(dResult[k2]) + 1

\* no call is queued, running or about to settle
SpQuiet ==
  \A i \in 1..Len(spCalls) : spCalls[i].status \in {"resolved", "rejected"}

C10_NoChildOutlives ==
  SpawnerDestroyed
  => /\ spItems = <<>>
     /\ \A c \in 1..Len(spChildren) : spChildren[c] = "destroyed"

\* peers with a record instances.<peerId>
Live == {p \in Peers : instances[p].operation = "PUT"}

\* C1: across every successful write of the distribution cell, by any peer
\* and under any interleaving of _rebalance calls, the revision field of the
\* new record is strictly greater than that of the record it replaces.
C1_RevisionGrows ==
  [][(cell.operation = "PUT" /\ cell' # cell)
       => cell'.value.revision > cell.value.revision]_vars

C1_Witness ==
  /\ distWrites >= 2
  /\ cell.operation = "PUT"
  /\ cell.value.revision > 1

\* C2: for one membership event (a peer joining or leaving a steady
\* cluster), however many peers run _rebalance for it, exactly one write of
\* the distribution cell succeeds: never more than one while the event is
\* handled, and one, carrying the event's revision, once the cluster is
\* steady again.
C2_OneWritePerEvent ==
  ev.revision # 0 =>
    /\ distWrites \in {ev.base, ev.base + 1}
    /\ (Steady /\ ev.ran # {}) =>
         /\ distWrites = ev.base + 1
         /\ cell.value.revision = ev.revision

C2_Witness ==
  /\ Steady
  /\ ev.revision # 0
  /\ Cardinality(ev.ran) = 2
  /\ distWrites = ev.base + 1
  /\ ev.base >= 1

\* C5 as stated: whenever the instances records have stopped changing and
\* every watcher has processed all its updates, the keys of the stored
\* distribution are the peers that have an instances record.
C5_AsStated ==
  Steady => DOMAIN cell.value.distribution = Live

\* C5: the same, while at least one peer is running: its instances watch
\* is what removes a peer that left.
C5_LiveKeys ==
  (Steady /\ \E p \in Peers : pc[p] = "running")
    => /\ cell.operation = "PUT"
       /\ DOMAIN cell.value.distribution = Live

C5_Witness ==
  /\ Steady
  /\ \E p, q \in Peers :
       /\ pc[p] = "running"
       /\ pc[q] = "destroyed"
       /\ distWrites >= 3
       /\ DOMAIN cell.value.distribution = {p}
       /\ Live = {p}

\* shards for which the peer has a live handler
LiveHandlers(p) == {s \in Range(Shards) : handlers[p][s].state = "live"}

C7_SameStreamAndKey ==
  /\ \A a \in subLog : a.shard \in Range(Shards)
  /\ \A a, b \in subLog :
       DeepEqual(a.params, b.params) =>
         /\ a.stream = b.stream
         /\ a.shard = b.shard
         /\ a.key = b.key
  /\ \A a \in subLog :
       Cardinality({k \in DOMAIN subs :
                      /\ subs[k].operation = "PUT"
                      /\ DeepEqual(subs[k].value.params, a.params)}) <= 1

C7_Witness ==
  /\ \E a, b \in subLog : a.params # b.params /\ DeepEqual(a.params, b.params)
  /\ used.subscribes = 2
  /\ \E k \in DOMAIN subs : subs[k].operation = "PUT"

\* peers that hold a handler for the shard
Replicas(shard) == {p \in Peers : handlers[p][shard].state = "live"}

\* paramHash keys whose record exists in the slice subscriptions.<shard>
Subscribed(shard) ==
  {h \in ParamHashes : subs[<<shard, h>>].operation = "PUT"}

SmQuiet ==
  /\ ~smBusy
  /\ \A i \in 1..Len(smCalls) : smCalls[i].status \in {"resolved", "rejected"}

SmAlive == {i \in 1..Len(smChildren) : smChildren[i] = "alive"}

SmFactoryPending ==
  \E i \in 1..Len(smCalls) :
    /\ smCalls[i].status = "running"
    /\ Head(smCalls[i].tasks).t = "factory"

\* C11: a Summoner never has two children alive, and while the factory is
\* being awaited the previous child's destroy() has completed: no child is
\* alive
C11_OneChild ==
  /\ Cardinality(SmAlive) <= 1
  /\ SmFactoryPending => SmAlive = {}

\* a respawn happened: the first child is destroyed, the factory runs again
C11_Witness ==
  /\ Len(smChildren) >= 1
  /\ smChildren[1] = "destroyed"
  /\ SmFactoryPending
  /\ smGhost = NoGhost

\* C12: when no call is in progress, the live child was created from
\* params compare-equal to the reference (the argument of the most recent
\* spawn that resolved and was not compare-equal to its predecessor); and
\* as long as only spawn was called and nothing threw, the factory ran
\* exactly once per change of the reference, so a compare-equal spawn
\* created and destroyed nothing
C12_LatestParams ==
  SmQuiet =>
    /\ smGhost.set => smRef.set /\ DefaultCompare(smGhost.params, smRef.params)
    /\ smRef.clean =>
         /\ smGhost.set = smRef.set
         /\ Len(smChildren) = smRef.changes
         /\ \A i \in 1..Len(smChildren) :
              smChildren[i] = "alive" <=> i = Len(smChildren)

\* three spawns resolved, one of them compare-equal to its predecessor
C12_Witness ==
  /\ SmQuiet
  /\ smRef.clean
  /\ Len(smCalls) = 3
  /\ smRef.changes = 2
  /\ smGhost.set

\* the entries of the snapshot that are present: written and not deleted
WtPresent == {i \in 1..Len(wtStart) : wtStart[i].operation = "PUT"}

\* the callback was invoked for snapshot entry i as a PUT with online false
WtDelivered(i, done) ==
  \E j \in 1..Len(wtLog) :
    /\ wtLog[j].update.operation = "PUT"
    /\ wtLog[j].update.key = wtStart[i].key
    /\ wtLog[j].update.revision = wtStart[i].revision
    /\ ~wtLog[j].update.online
    /\ done => wtLog[j].done

\* C13: the online flag of the delivered updates never goes back from true
\* to false; once it is true every entry present when the watch started has
\* been delivered as a PUT with online=false; and an update with online=true
\* is for a write made after the watch started
C13_OnlineOnce ==
  /\ \A i, j \in 1..Len(wtLog) :
       i < j /\ wtLog[i].update.online => wtLog[j].update.online
  /\ wtPc # "new" /\ Online(wtW) => \A i \in WtPresent : WtDelivered(i, FALSE)
  /\ \A j \in 1..Len(wtLog) :
       wtLog[j].update.online =>
         \A i \in 1..Len(wtStart) :
           wtLog[j].update.revision > wtStart[i].revision

\* a snapshot of two present entries was delivered, then a later write with
\* online=true
C13_Witness ==
  /\ Cardinality(WtPresent) = 2
  /\ Len(wtLog) = 3
  /\ ~wtLog[2].update.online
  /\ wtLog[3].update.online

\* C14: when Watcher.init has returned online is true and the user callback
\* has been invoked, to completion, for every entry of the initial snapshot
C14_InitAfterSnapshot ==
  wtPc = "returned" =>
    /\ Online(wtW)
    /\ \A i \in WtPresent : WtDelivered(i, TRUE)

\* init returned after a snapshot of two present entries
C14_Witness ==
  /\ wtPc = "returned"
  /\ Cardinality(WtPresent) = 2
  /\ Len(wtLog) = 2

\* the callers whose f is executing
LkInBody == {c \in LockCallers : lkCalls[c].pc = "body"}

LkSettled(c) == lkCalls[c].pc \in {"resolved", "failed", "locked"}

LkExclusive == ~lkOverrun => Cardinality(LkInBody) <= 1

\* C15 as stated: the bodies are mutually exclusive while no f outlasts the
\* TTL, and each of the N bodies runs
C15_AsStated ==
  /\ LkExclusive
  /\ \A c \in LockCallers : LkSettled(c) => lkCalls[c].runs = 1

\* C15, amended: the bodies are mutually exclusive while no f outlasts the
\* TTL, a call that got the key runs its body once, and a call whose first
\* attempt and every allowed retry found the key held is rejected without
\* running its body
C15_Serialized ==
  /\ LkExclusive
  /\ \A c \in LockCallers :
       /\ lkCalls[c].pc \in {"resolved", "failed"} => lkCalls[c].runs = 1
       /\ lkCalls[c].pc = "locked" =>
            lkCalls[c].runs = 0 /\ lkCalls[c].retry = lkRetries

\* with retries allowed, two bodies ran one after the other and a third call
\* gave up
C15_Witness ==
  /\ lkRetries = Retries
  /\ lkExpired = 0
  /\ lkCalls[1].pc = "resolved"
  /\ lkCalls[2].pc = "resolved"
  /\ lkCalls[3].pc = "locked"

\* C16: a call whose f threw ran f once and has released its key; when
\* nobody is inside lock the key holds no value, so the next create
\* succeeds without waiting for the TTL
C16_ReleasedOnThrow ==
  /\ \A c \in LockCallers :
       lkCalls[c].pc = "failed" =>
         /\ lkCalls[c].runs = 1
         /\ lkCalls[c].threw
         /\ ~(lkKey.operation = "PUT" /\ lkKey.revision = lkCalls[c].revision)
  /\ (\A c \in LockCallers : lkCalls[c].pc \notin {"body", "release"})
       => KvCreate(lkKey)

\* f of the first call threw; the second call, made later, got the key with
\* no expiry in between
C16_Witness ==
  /\ lkCalls[1].pc = "failed"
  /\ lkCalls[2].pc = "body"
  /\ lkCalls[2].retry = 0
  /\ lkCalls[2].revision > lkCalls[1].revision
  /\ lkExpired = 0

\* C17: every write that is taken adds one to the value stored just before
\* it, so the stored value always counts the writes taken; no call runs out
\* of retries against fewer competitors than retries, and when all N calls
\* have resolved the value is N
C17_NoLostUpdate ==
  /\ muCell.value = (IF muWrites = 0 THEN Undefined ELSE muWrites)
  /\ \A c \in Mutators : muCalls[c].pc # "rejected"
  /\ (\A c \in Mutators : muCalls[c].pc = "resolved")
       => muCell.value = MaxMutators

\* all calls resolved and one of them was made to read again twice
C17_Witness ==
  /\ \A c \in Mutators : muCalls[c].pc = "resolved"
  /\ \E c \in Mutators : muCalls[c].retry = 2

C19_NakDelay ==
  \A i \in 1..Len(coLog) :
    coLog[i].nak =>
      /\ coLog[i].after = Min(1000 * (2 ^ (i - 1)), 60000)
      /\ coLog[i].after <= 60000
      /\ i = 1 => coLog[i].after = 1000
      /\ i > 1 => coLog[i - 1].after <= coLog[i].after

\* the composition the heartbeat relies on: when the summoner call made
\* last is a spawn whose callback has completed, the consumer has a live
\* subscription
CoLive ==
  /\ smGhost.set
  /\ smChildren[smGhost.object] = "alive"

\* C20: after a heartbeat-miss killed the subscription, a run of
\* _subscribe whose request succeeded and whose spawn completed leaves a
\* live subscription that was created after the kill, and it is this
\* subscription that is delivered the message
C20_Resubscribed ==
  /\ (/\ smCalls # <<>>
      /\ smCalls[Len(smCalls)].op = "spawn"
      /\ smCalls[Len(smCalls)].status \in {"ok", "resolved"}) => CoLive
  /\ coMsg.pc = "callback" /\ smGhost.set /\ smGhost.object # coMsg.object
       => smChildren[coMsg.object] = "destroyed"
  /\ \A o \in coErrorCalled :
       smGhost.set /\ smGhost.object # o => smChildren[o] = "destroyed"

\* the first subscription missed its heartbeats and was destroyed; the next
\* run of _subscribe made a second one, which is delivered the message
C20_Witness ==
  /\ coErrorCalled = {1}
  /\ smChildren = <<"destroyed", "alive">>
  /\ smGhost.object = 2
  /\ coTicks = 2
  /\ coTick.pc = "idle"
  /\ coMsg.pc = "callback"
  /\ coMsg.object = 2

\* C21: every tick happens at a time congruent to the time the Timer was
\* constructed modulo the interval, whatever the callbacks took
C21_TicksAligned ==
  \A i \in 1..Len(tmTicks) : (tmTicks[i] - tmEpoch) % TimerInterval = 0

\* a timer made at 0 ticked at 5 and 10; the callback of the second tick
\* took 2 and the next tick is armed for 15, not 17
C21_Witness ==
  /\ tmEpoch = 0
  /\ tmTicks = <<5, 10>>
  /\ tmPc = "armed"
  /\ tmNow = 12
  /\ tmArmed = 15

\* the call starts its callback in this step
SpStarts(id) ==
  /\ spCalls'[id].status # "queued"
  /\ id > Len(spCalls) \/ spCalls[id].status = "queued"

\* the children alive are exactly those the registry holds
SpRegistered ==
  \A c \in 1..Len(spChildren) :
    spChildren[c] = "alive" <=>
      \E i \in 1..Len(spItems) : spItems[i].item = c

\* while maybeRespawnItem(k, v) awaits the factory k has no child, the old
\* one being destroyed and removed; when its callback has completed k maps
\* to a live child with hash(v)
SpRespawnState ==
  \A id \in 1..Len(spCalls) :
    spCalls[id].op = "maybeRespawnItem" =>
      /\ (spCalls[id].status = "running"
          /\ Head(spCalls[id].tasks).t = "factory")
           => ~ItemsHas(spItems, spCalls[id].key)
      /\ spCalls[id].status = "ok" =>
           /\ ItemsHas(spItems, spCalls[id].key)
           /\ ItemsGet(spItems, spCalls[id].key).hash
                = HashOf(spCalls[id].value)
           /\ spChildren[ItemsGet(spItems, spCalls[id].key).item] = "alive"

\* what maybeRespawnItem(k, v) sets out to do when its callback starts
SpRespawnStep ==
  \A id \in 1..Len(spCalls') :
    (spCalls'[id].op = "maybeRespawnItem" /\ SpStarts(id)) =>
      LET k == spCalls'[id].key
          v == spCalls'[id].value
          has == ItemsHas(spItems, k)
          same == has /\ ItemsGet(spItems, k).hash = HashOf(v)
      IN /\ ~has =>
              /\ spCalls'[id].status = "running"
              /\ spCalls'[id].tasks = <<Task("factory", k, v)>>
         /\ same =>
              /\ spCalls'[id].status = "ok"
              /\ spItems' = spItems
              /\ spChildren' = spChildren
         /\ has /\ ~same =>
              /\ spCalls'[id].status = "running"
              /\ spCalls'[id].tasks = <<Task("destroy", k, Undefined),
                                        Task("factory", k, v)>>

\* C22: maybeRespawnItem(k, v) calls the factory once when k has no child,
\* creates and destroys nothing when the stored hash equals hash(v), and
\* otherwise awaits the old child's destroy() before the factory, after
\* which k maps to the new child with hash(v)
C22_MaybeRespawn ==
  [](SpRegistered /\ SpRespawnState) /\ [][SpRespawnStep]_vars

\* a maybeRespawnItem has replaced the child of its key
C22_Witness ==
  /\ spChildren = <<"destroyed", "alive">>
  /\ Len(spItems) = 1
  /\ \E id \in 1..Len(spCalls) :
       /\ spCalls[id].op = "maybeRespawnItem"
       /\ spCalls[id].status = "ok"
       /\ spItems[1].key = spCalls[id].key
       /\ spItems[1].item = 2

\* the calls whose callback holds the mutex
SpActive ==
  {id \in 1..Len(spCalls) : spCalls[id].status \in {"running", "ok", "err"}}

\* C23: at most one public operation of a Spawner is inside the mutex, so
\* no two factory or destroy() invocations overlap; a call starts only when
\* every call made before it has completed; and calls never wait while the
\* mutex is free, whether the call before them resolved or rejected
C23_Serialized ==
  /\ Cardinality(SpActive) <= 1
  /\ \A i, j \in 1..Len(spCalls) :
       i < j /\ spCalls[j].status # "queued"
         => spCalls[i].status \in {"resolved", "rejected"}
  /\ (\E id \in 1..Len(spCalls) : spCalls[id].status = "queued")
       => SpActive # {}
  /\ spBusy <=> SpActive # {}

\* the first call was rejected, the second, made while the first was
\* running, runs, and a third one waits
C23_Witness ==
  /\ Len(spCalls) = 3
  /\ spCalls[1].status = "rejected"
  /\ spCalls[2].status = "running"
  /\ spCalls[3].status = "queued"

\* what spawnItem on a key that has a child, and destroyItem on a key that
\* has none, do when their callback starts
SpRefusalStep ==
  \A id \in 1..Len(spCalls') :
    SpStarts(id) =>
      /\ (spCalls'[id].op = "spawnItem"
          /\ spCalls'[id].key \in ItemsKeys(spItems)) =>
           /\ spCalls'[id].status = "err"
           /\ spCalls'[id].tasks = <<>>
           /\ spItems' = spItems
           /\ spChildren' = spChildren
      /\ (spCalls'[id].op = "destroyItem"
          /\ spCalls'[id].key \notin ItemsKeys(spItems)) =>
           /\ spCalls'[id].status = "ok"
           /\ spCalls'[id].tasks = <<>>
           /\ spItems' = spItems
           /\ spChildren' = spChildren

\* C24: spawnItem(k, v) on a key that has a live child fails without
\* calling the factory and leaves the registry and its children as they
\* are; destroyItem(k) on a key without a child succeeds and changes
\* nothing; a call that has thrown is rejected, one that has not is resolved
C24_Refusals ==
  /\ [][SpRefusalStep]_vars
  /\ [][\A id \in 1..Len(spCalls) :
          /\ spCalls[id].status = "err"
               => spCalls'[id].status \in {"err", "rejected"}
          /\ spCalls[id].status = "ok"
               => spCalls'[id].status \in {"ok", "resolved"}]_vars

\* a spawnItem was rejected and a destroyItem resolved while the one child
\* ever made is still alive in the registry
C24_Witness ==
  /\ spChildren = <<"alive">>
  /\ Len(spItems) = 1
  /\ ~spFailed
  /\ \E i, j \in 1..Len(spCalls) :
       /\ spCalls[i].op = "spawnItem" /\ spCalls[i].status = "rejected"
       /\ spCalls[j].op = "destroyItem" /\ spCalls[j].status = "resolved"

\* C25: a call that found the key held on its first attempt and on every
\* retry has made a bounded number of retries, has not run f, and is
\* rejected with 'cannot acquire lock'
C25_CannotAcquire ==
  \A c \in LockCallers :
    lkCalls[c].pc = "locked" =>
      /\ lkCalls[c].retry <= Retries
      /\ lkCalls[c].runs = 0
      /\ lkCalls[c].error = "cannot acquire lock"

\* the cleanup of caller c runs in this step
LkReleases(c) == lkCalls[c].pc = "release" /\ lkCalls'[c].pc # "release"

\* C26: the cleanup of a call removes the key only when the key still has
\* the revision that call created; when the key expired and another caller
\* re-created it, the cleanup leaves the new holder's entry in place and the
\* call still returns as f did, resolving when f returned; the entry of a
\* caller inside f is removed only by that caller or by the TTL
C26_ReleaseOwnKeyOnly ==
  [][/\ \A c \in LockCallers :
          LkReleases(c) =>
            /\ IF lkKey.operation = "PUT"
                  /\ lkKey.revision = lkCalls[c].revision
               THEN lkKey'.operation = "DEL"
               ELSE lkKey' = lkKey
            /\ lkCalls'[c].pc =
                 IF lkCalls[c].threw THEN "failed" ELSE "resolved"
     /\ \A h \in LockCallers :
          (/\ lkCalls[h].pc = "body"
           /\ lkKey = [operation |-> "PUT", revision |-> lkCalls[h].revision]
           /\ lkKey' # lkKey)
            => lkExpired' = lkExpired + 1]_vars

\* the first caller's key expired while it was inside f, the second caller
\* re-created the key, and the first caller's lock has returned normally,
\* its delete having found the second caller's entry, which is still there
C26_Witness ==
  /\ lkCalls[1].pc = "resolved"
  /\ lkCalls[2].pc = "body"
  /\ lkCalls[1].kept = lkCalls[2].revision
  /\ lkKey = [operation |-> "PUT", revision |-> lkCalls[2].revision]
  /\ lkExpired = 1

\* the callback of caller c has run and the call goes on in this step
MuUses(c) == muCalls[c].pc = "use" /\ muCalls'[c].pc # "use"

\* the key's last entry is the same after the step
MuUnchanged ==
  /\ muCell'.operation = muCell.operation
  /\ muCell'.revision = muCell.revision

\* the write is compared: the entry changes only by a call whose read
\* revision is still the key's last revision (none for a create), and a
\* call that writes after the key changed leaves the entry as it is and
\* fails or, in mutateUsing, runs the cycle again
MuCompared ==
  /\ ~MuUnchanged =>
       \E c \in Mutators :
         /\ MuUses(c)
         /\ muCalls[c].expect = muCell.revision
         /\ muCell'.revision = muCell.revision + 1
  /\ \A c \in Mutators :
       (/\ MuUses(c)
        /\ muCalls[c].api = "mutate" \/ muCalls[c].writes
        /\ muCalls[c].expect # muCell.revision) =>
         /\ MuUnchanged
         /\ muCalls'[c].pc \in {"get", "rejected"}
         /\ muCalls[c].api = "mutate" => muCalls'[c].pc = "rejected"

\* C27 as stated: the write is compared, and in mutate as in mutateUsing a
\* call whose f does not write leaves the key unchanged
C27_AsStated ==
  [][/\ MuCompared
     /\ \A c \in Mutators :
          (MuUses(c) /\ ~muCalls[c].writes) => MuUnchanged]_muCalls

\* C27, amended: the write is compared; in mutateUsing a call whose f does
\* not call the write function resolves with the key unchanged, while mutate
\* writes what f returned whenever the read revision is still the last one
C27_CompareAndSwap ==
  [][/\ MuCompared
     /\ \A c \in Mutators :
          /\ (MuUses(c) /\ ~muCalls[c].writes
              /\ muCalls[c].api = "mutateUsing") =>
               MuUnchanged /\ muCalls'[c].pc = "resolved"
          /\ (MuUses(c) /\ muCalls[c].api = "mutate"
              /\ muCalls[c].expect = muCell.revision) =>
               /\ muCell'.revision = muCell.revision + 1
               /\ muCalls'[c].pc = "resolved"]_muCalls

\* a mutate call failed on a concurrent change, a mutateUsing call whose f
\* did not write resolved, and the key holds the one write that was taken
C27_Witness ==
  /\ muCalls[1].api = "mutate" /\ muCalls[1].pc = "rejected"
  /\ muCalls[2].api = "mutateUsing" /\ ~muCalls[2].writes
  /\ muCalls[2].pc = "resolved"
  /\ muCalls[3].writes /\ muCalls[3].pc = "resolved"
  /\ muWrites = 1
  /\ muCell.revision = 1

\* the instances watcher of peer p hands its callback an update in this step
PrTakes(p) == instW[p].q # <<>> /\ instW'[p] = Taken(instW[p])

\* the update changes who is in the crowd of p
PrChangesCrowd(p, update) ==
  IF update.operation = "PUT"
  THEN ~Includes(crowd[p], update.key)
  ELSE Includes(crowd[p], update.key)

\* C28: a peer starts _rebalance only in the callback of an instances
\* update that comes after the snapshot and changes who is in its crowd,
\* and with the revision of that update; the callback of a re-put of a peer
\* already in the crowd, and of an update replayed from the snapshot,
\* brings the crowd up to date and starts nothing; the distribution cell is
\* written only by a _rebalance, with the revision it was started with
C28_RebalanceOnChange ==
  [][/\ \A p \in Peers :
          /\ (rb[p].pc = "idle" /\ rb'[p].pc # "idle") =>
               /\ PrTakes(p)
               /\ instW[p].snap = 0
               /\ PrChangesCrowd(p, Head(instW[p].q))
               /\ rb'[p].pc = "get"
               /\ rb'[p].revision = Head(instW[p].q).revision
          /\ PrTakes(p) =>
               /\ Includes(crowd'[p], Head(instW[p].q).key)
                    <=> Head(instW[p].q).operation = "PUT"
               /\ (instW[p].snap > 0 \/ ~PrChangesCrowd(p, Head(instW[p].q)))
                    => (rb'[p] = rb[p] /\ cell' = cell)
     /\ cell' # cell =>
          \E p \in Peers :
            /\ rb[p].pc = "use"
            /\ cell'.value.revision = rb[p].revision
            /\ cell'.value.author = p]_vars

\* both peers are running and settled, and the last write of the bucket is
\* a heartbeat re-put, which every watcher has consumed: the cell still has
\* the record of the last change of membership
C28_Witness ==
  /\ \A p \in Peers : pc[p] = "running"
  /\ Steady
  /\ used.heartbeats = 1
  /\ \E p \in Peers : instances[p].revision = kvSeq
  /\ cell.revision < kvSeq
  /\ distWrites = 2

\* the slice watcher of the handler of peer p for shard s hands its callback
\* an update in this step
ShTakes(p, s) ==
  /\ handlers[p][s].state # "none"
  /\ handlers[p][s].w.q # <<>>
  /\ handlers'[p][s].state # "none"
  /\ handlers'[p][s].w = Taken(handlers[p][s].w)

\* what the callback does to the workers of the handler
ShWorkerStep(before, after, update) ==
  IF update.operation = "PUT"
  THEN /\ ItemsHas(after, update.key)
       /\ ItemsGet(after, update.key).hash = HashOf(update.value.params)
       /\ IF ~ItemsHas(before, update.key)
          THEN ItemsGet(after, update.key).item = 1
          ELSE IF ItemsGet(before, update.key).hash
                    = HashOf(update.value.params)
          THEN after = before
          ELSE ItemsGet(after, update.key).item
                 = ItemsGet(before, update.key).item + 1
  ELSE /\ ~ItemsHas(after, update.key)
       /\ \A k \in ItemsKeys(before) \ {update.key} :
            ItemsHas(after, k) /\ ItemsGet(after, k) = ItemsGet(before, k)

C30_OneAtATimeInOrder ==
  /\ \A i \in 1..Len(wtLog) : i < Len(wtLog) => wtLog[i].done
  /\ wtBusy <=> (wtLog # <<>> /\ ~wtLog[Len(wtLog)].done)
  /\ \A i, j \in 1..Len(wtLog) :
       (i < j /\ wtLog[i].update.key = wtLog[j].update.key) =>
         wtLog[i].update.revision < wtLog[j].update.revision

\* the PUT of a key has been handled, its DEL is being handled, and the next
\* PUT of the key waits in the iterator behind it
C30_Witness ==
  /\ Len(wtLog) = 2
  /\ wtLog[1].done /\ ~wtLog[2].done
  /\ wtLog[1].update.key = "a" /\ wtLog[1].update.operation = "PUT"
  /\ wtLog[2].update.key = "a" /\ wtLog[2].update.operation = "DEL"
  /\ Len(wtW.q) = 2
  /\ wtW.q[2].key = "a" /\ wtW.q[2].operation = "PUT"

\* C31: once Producer.destroy has returned, the record instances.<ownId> is
\* deleted and no put of it is on its way: the put of a tick that was in
\* flight when destroy began was stored before the delete
C31_GoneAfterDestroy ==
  hbPc = "destroyed" =>
    /\ hbRecord = "DEL"
    /\ hbOutbox = <<>>
    /\ tmArmed = -1

\* destroy began while the callback of the second tick was in flight, and
\* has returned; that callback has settled since
C31_Witness ==
  /\ hbPc = "destroyed"
  /\ hbInFlight
  /\ Len(tmTicks) = 2
  /\ tmRunning = 0
  /\ tmPc = "stopped"

\* C35: once destroy has been called nothing is armed and no callback is
\* started any more; a callback in flight at destroy is not touched, it
\* settles later and arms nothing, so no tick follows
C35_NoTickAfterDestroy ==
  /\ [](tmDestroyed => tmArmed = -1)
  /\ [][tmDestroyed =>
          /\ tmTicks' = tmTicks
          /\ tmArmed' = -1
          /\ tmRunning' \in {tmRunning, tmRunning - 1}
          /\ tmDestroyed']_vars

\* destroy was called during the callback of the second tick, which has
\* settled since; the timer has stopped with two ticks made
C35_Witness ==
  /\ tmDestroyed
  /\ hbInFlight
  /\ tmRunning = 0
  /\ tmPc = "stopped"
  /\ tmArmed = -1
  /\ Len(tmTicks) = 2
  /\ hbPc = "stopping"

\* C36: at most one callback of a Timer is in flight, and a timeout is
\* pending only while none is; a callback that settles, resolved or
\* rejected, on a timer that is not destroyed arms the next tick at a later
\* time, and a rejection is reported to the sink
C36_NoOverlap ==
  /\ [](tmRunning <= 1 /\ (tmArmed >= 0 => tmRunning = 0))
  /\ [][/\ tmRunning' > tmRunning => tmRunning = 0
        /\ (tmRunning' < tmRunning /\ ~tmDestroyed) =>
             /\ tmArmed' > tmNow'
             /\ tmNow' >= tmNow
             /\ tmSink' \in {tmSink, tmSink + 1}
        /\ tmSink' # tmSink => tmRunning' < tmRunning]_vars

\* the callback of the tick at 5 took 7 and was rejected: the next tick
\* came at 15, not at 10 during the callback
C36_Witness ==
  /\ tmEpoch = 0
  /\ tmTicks = <<5, 15>>
  /\ tmSink = 1
  /\ tmRunning = 1
  /\ ~tmDestroyed

\* the HeartbeatsMissed statuses at which the error callback ran
CoFired == {i \in 1..Len(coMissed) : coMissed[i].fired}

\* C32: the error callback of a subscription runs, reports to the sink and
\* calls summoner.kill(), at the first HeartbeatsMissed status with a count
\* of at least 2, and at no later status of that subscription
C32_ErrorOnce ==
  /\ \A i \in 1..Len(coMissed) :
       coMissed[i].fired <=>
         /\ coMissed[i].n >= 2
         /\ \A j \in 1..(i - 1) :
              coMissed[j].object = coMissed[i].object => ~coMissed[j].fired
  /\ \A i \in CoFired :
       /\ coMissed[i].id \in 1..Len(smCalls)
       /\ smCalls[coMissed[i].id].op = "kill"
  /\ \A i, j \in CoFired : coMissed[i].id = coMissed[j].id => i = j
  /\ Cardinality(CoFired)
       = Cardinality({k \in 1..Len(coSink) :
                        coSink[k] = "consumer subscription failed"})

\* a subscription reported two misses, then three: the callback ran at the
\* first status only
C32_Witness ==
  /\ Len(coMissed) = 2
  /\ coMissed[1].n = 2 /\ coMissed[1].fired
  /\ coMissed[2].object = coMissed[1].object
  /\ coMissed[2].n = 3 /\ ~coMissed[2].fired

\* the subscriptions that are open
CoAlive == {o \in 1..Len(smChildren) : smChildren[o] = "alive"}

\* C33: _subscribe makes at most 3 attempts; when the last one failed it
\* reports 'consumer heartbeat failed' and awaits summoner.kill(), and once
\* that kill has resolved no subscription is open; a subscription is opened
\* only by a run whose request succeeded; the first run, the one init
\* awaits, never rejects
C33_GiveUpKills ==
  /\ [](/\ coTick.retry <= ConsumerRetries
        /\ coTick.pc = "kill" =>
             /\ coTick.retry = ConsumerRetries
             /\ smCalls[coTick.id].op = "kill"
             /\ (coTicks = 1 =>
                   smCalls[coTick.id].status \notin {"err", "rejected"}))
  /\ [][/\ (coTick.pc # "kill" /\ coTick'.pc = "kill")
             <=> coSink' = Append(coSink, "consumer heartbeat failed")
        /\ (/\ coTick.pc = "kill" /\ coTick'.pc = "idle"
            /\ smCalls[coTick.id].status = "resolved")
             => (~smGhost'.set /\ CoAlive' = {})
        /\ (Len(smChildren') > Len(smChildren) => coTick.pc = "spawn")]_vars

\* the first run gave up after three attempts and its kill resolved; the
\* timer then started the second run
C33_Witness ==
  /\ coTicks = 2
  /\ coSink = <<"consumer heartbeat failed">>
  /\ CoAlive = {}
  /\ coTick.pc = "call"

\* C34: once Consumer.destroy() has returned, no subscription of this
\* Consumer is open, also when a run of _subscribe was in flight when
\* destroy() was called
C34_ClosedAfterDestroy ==
  coDestroy.pc = "done" => CoAlive = {}

\* C34, the timer's part: once destroy() was called no run of _subscribe
\* starts
C34_NoRunAfterDestroy ==
  [][coDestroy.pc # "none" => coTicks' = coTicks]_vars

\* C39: the kill that the error callback of a subscription queued
\* destroys, when it runs, that subscription and no other: while that kill
\* awaits the destroy() of the ghost, the ghost is the subscription that
\* reported
C39_KillsReporterOnly ==
  \A i \in CoFired :
    smCalls[coMissed[i].id].status = "running"
      => smGhost.object = coMissed[i].object

\* the running callback awaits task t
SpAwaits(id, t) ==
  /\ spCalls[id].status = "running"
  /\ Head(spCalls[id].tasks).t = t

\* while a callback awaits the factory for key k the registry has no entry
\* for k
SpFactoryState ==
  \A id \in 1..Len(spCalls) :
    SpAwaits(id, "factory")
      => ~ItemsHas(spItems, Head(spCalls[id].tasks).key)

\* the step in which an awaited factory call or child destroy() throws
SpFailureStep ==
  \A id \in 1..Len(spCalls) :
    LET k == Head(spCalls[id].tasks).key IN
    /\ (SpAwaits(id, "factory") /\ spCalls'[id].status = "err") =>
         /\ spItems' = spItems
         /\ spChildren' = spChildren
         /\ ~ItemsHas(spItems', k)
    /\ (SpAwaits(id, "destroy") /\ spCalls'[id].status = "err") =>
         /\ spItems' = spItems
         /\ spChildren' = spChildren
         /\ ItemsHas(spItems', k)
         /\ spChildren[ItemsGet(spItems', k).item] = "alive"
         /\ spCalls'[id].tasks = <<>>

\* C40: when the factory throws while a changed child is being replaced,
\* the old child is destroyed and its key has no entry, the registry
\* holding exactly the live children; when the old child's destroy()
\* throws, the entry and the child stay and the callback ends without a
\* factory call
C40_FailedReplace ==
  [](SpRegistered /\ SpFactoryState) /\ [][SpFailureStep]_vars

\* maybeRespawnItem destroyed the only child and its factory call threw
C40_Witness ==
  /\ spChildren = <<"destroyed">>
  /\ spItems = <<>>
  /\ \E id \in 1..Len(spCalls) :
       /\ spCalls[id].op = "maybeRespawnItem"
       /\ spCalls[id].status = "err"

\* the reports the sink has when every item was delivered: one for every
\* item the callback failed on, in order, then one if the sequence threw
LsReports ==
  LET failed == SelectSeq([i \in 1..Len(lsItems) |-> lsItems[i]],
                          LAMBDA ok : ~ok)
  IN [i \in 1..Len(failed) |-> "listener callback failed"]
     \o (IF lsThrows THEN <<"listener failed">> ELSE <<>>)

\* C37: a callback failure is reported and the loop goes on, so that every
\* item of the sequence is delivered in order; a failure of the sequence
\* is reported and ends the loop; init() and destroy() never reject, and
\* destroy() returns only when the loop has ended
C37_ListenerFailures ==
  /\ [](/\ lsDelivered = [i \in 1..lsNext |-> i]
        /\ lsPc = "ended" =>
             /\ lsNext = Len(lsItems)
             /\ lsSink = LsReports
        /\ lsInit # "rejected" /\ lsDestroy # "rejected"
        /\ lsPromise # "rejected"
        /\ lsDestroy = "returned" => lsPc = "ended")
  /\ [][/\ (lsPc = "callback" /\ lsPc' # "callback") =>
             /\ lsPc' = "waiting"
             /\ lsSink' = IF lsItems[lsNext]
                          THEN lsSink
                          ELSE Append(lsSink, "listener callback failed")
        /\ (lsPc = "waiting" /\ lsPc' = "ended" /\ lsThrows)
             => lsSink' = Append(lsSink, "listener failed")]_vars

\* the callback failed on the first of three items, the sequence then
\* threw, and a destroy() called meanwhile has returned
C37_Witness ==
  /\ lsItems = <<FALSE, TRUE, TRUE>>
  /\ lsThrows
  /\ lsDelivered = <<1, 2, 3>>
  /\ lsSink = <<"listener callback failed", "listener failed">>
  /\ lsDestroy = "returned"

\* C38: a retry loop whose signal was aborted rejects with the reason of
\* the abort, wherever the loop was when the signal came, and the sink
\* drops that error
C38_ExitsWithAbortReason ==
  /\ (rtSignal.at # "none" /\ rtPc \in {"resolved", "rejected"})
       => (rtPc = "rejected" /\ rtError = "shutdown")
  /\ (rtSignal.at # "none" /\ rtSink # "none") => rtSink = "suppressed"

\* C38, the part about the callback: it is not invoked after the signal
C38_NoAttemptAfterSignal ==
  rtSignal.at # "none" => rtCalls = rtSignal.calls

\* C38, the sleep's part: a signal during a back-off sleep makes the loop
\* reject with the reason, which the sink drops
C38_AbortedSleep ==
  rtSignal.at = "sleep" =>
    /\ rtPc = "rejected" /\ rtError = "shutdown"
    /\ rtSink \in {"none", "suppressed"}

====
